---- MODULE Spec2Model ----
(***************************************************************************)
(* A model of the MCP host of the voice shopping agent:                    *)
(*   src/mcp_host/core/host.py           MCPHost (registry, dispatch, chat)*)
(*   src/mcp_host/core/state_manager.py  SessionState                      *)
(*   src/mcp_host/main.py                main (startup, input loop, exit)  *)
(* Python strings are sequences of one-character strings, so that          *)
(* concatenation, str.split and json.dumps are computed, not assumed.      *)
(* An optional value (None or a value) is a sequence of length 0 or 1.     *)
(***************************************************************************)
EXTENDS Integers, Sequences, FiniteSets, TLC

VARIABLES
    \* ---- MCPHost (host.py:41-56)
    server_configs,        \* self.server_configs: ordered <<[name, enabled?]>>
    sessions,              \* self.sessions: server name -> connection handle
    tools,                 \* self.tools: the descriptor list handed to the model
    tool_to_server,        \* self.tool_to_server: qualified name -> server name
    exit_stack,            \* self.exit_stack: the contexts entered, oldest first
    \* ---- SessionState (state_manager.py:33-46)
    basket, discount_code, discount_amount, conversation_history,
    user_location, user_preferences, current_order_id,
    \* ---- control state
    phase,                 \* "startup" | "ready" | "exited": where main() is
    cfg_idx,               \* position of connect_all_servers in server_configs
    pc,                    \* where chat() is: "idle" | "call_model" | "got_response" | "for_blocks"
    system_prompt,         \* chat's local system_prompt
    response,              \* chat's local response
    tool_results,          \* chat's local tool_results
    block_idx,             \* position of the for loop over assistant_content
    line,                  \* main: what input() returned last
    user_input,            \* main's local user_input
    \* ---- observations of the last operation (history variables)
    ev,                    \* the operation that made the last step, with its inputs
    registered,            \* every <<server name, local name>> a connected server listed
    last_call,             \* what the last call_tool did: result, raise, invocations
    turn,                  \* the running turn: history at its start, counters, answer
    opened,                \* every context whose __aenter__ has returned
    released,              \* the contexts cleanup has exited, in the order of exit
    cleanups,              \* how many times cleanup has run
    printed,               \* the answer main has printed for the last turn
    \* ---- two hosts in one process, by reference
    heap,                  \* the mutable objects: cell -> the object it holds
    hosts,                 \* the MCPHost instances: the cells their attributes refer to
    \* ---- the basket server, a process of its own
    manager                \* its BasketManager: items, discount_code, discount_amount

vars == <<server_configs, sessions, tools, tool_to_server,
          basket, discount_code, discount_amount, conversation_history,
          user_location, user_preferences, current_order_id,
          phase, cfg_idx, pc, system_prompt, response, tool_results, block_idx,
          ev, registered, last_call, turn,
          exit_stack, line, user_input, opened, released, cleanups, printed,
          heap, hosts, manager>>

hostVars    == <<server_configs, sessions, tools, tool_to_server>>
contextVars == <<basket, discount_code, discount_amount,
                 user_location, user_preferences, current_order_id>>
chatVars    == <<pc, system_prompt, response, tool_results, block_idx, turn>>
stackVars   == <<exit_stack, opened>>
exitVars    == <<released, cleanups>>
cliVars     == <<line, user_input, printed>>
worldVars   == <<heap, hosts, manager>>
mainVars    == <<stackVars, exitVars, cliVars, worldVars>>

----------------------------------------------------------------------------
\* Bounds of the model.
MaxServers == 2     \* configured servers
MaxTools   == 2     \* tools one server lists
MaxBlocks  == 2     \* content blocks of one model response
MaxHist    == 4     \* messages of the conversation history
MaxQty     == 2     \* quantity of one basket item
MaxRounds  == 3     \* rounds of the tool-use loop in one turn of SpecLoop

----------------------------------------------------------------------------
\* Strings.

None == <<>>
Some(x) == <<x>>

Range(s) == {s[i] : i \in 1..Len(s)}

\* str.join: the elements of parts with sep between them.
RECURSIVE Join(_, _)
Join(sep, parts) ==
    IF parts = <<>> THEN <<>>
    ELSE IF Len(parts) = 1 THEN parts[1]
    ELSE parts[1] \o sep \o Join(sep, Tail(parts))

\* The characters of the text the code writes literally.
Sep           == <<"_", "_">>
ToolPrefix    == <<"T", "o", "o", "l", ":", " ">>
UnknownPrefix == <<"U", "n", "k", "n", "o", "w", "n", " ", "t", "o", "o", "l", ":", " ">>
Newline       == <<"\n">>

\* The index of the first occurrence of "__" in s, 0 when there is none.
FirstSep(s) ==
    LET hits == {i \in 1..(Len(s) - 1) : s[i] = "_" /\ s[i + 1] = "_"}
    IN IF hits = {} THEN 0 ELSE CHOOSE i \in hits : \A j \in hits : i <= j

\* Mutant of SplitFirst: tool_name.rsplit("__", 1), the last separator splits.
SplitLast(s) ==
    LET hits == {i \in 1..(Len(s) - 1) : s[i] = "_" /\ s[i + 1] = "_"}
        i    == IF hits = {} THEN 0 ELSE CHOOSE h \in hits : \A j \in hits : j <= h
    IN IF i = 0 THEN <<s>>
       ELSE <<SubSeq(s, 1, i - 1), SubSeq(s, i + 2, Len(s))>>

\* tool_name.split("__", 1): one element without a separator, else two.
SplitFirst(s) ==
    LET i == FirstSep(s)
    IN IF i = 0 THEN <<s>>
       ELSE <<SubSeq(s, 1, i - 1), SubSeq(s, i + 2, Len(s))>>

\* json.dumps of a string: quotes, with '"' and '\' escaped.
RECURSIVE JsonEscape(_)
JsonEscape(s) ==
    IF s = <<>> THEN <<>>
    ELSE (IF s[1] = "\"" \/ s[1] = "\\" THEN <<"\\", s[1]>> ELSE <<s[1]>>)
         \o JsonEscape(Tail(s))

\* json.dumps({"error": msg})
JsonDumpsError(msg) ==
    <<"{", "\"", "e", "r", "r", "o", "r", "\"", ":", " ", "\"">>
    \o JsonEscape(msg) \o <<"\"", "}">>

----------------------------------------------------------------------------
\* Registry: connect_to_server and connect_all_servers.

\* Mutant of QualifiedName: the local name alone, without the server prefix.
QualifiedNameBare(name, local) == local

\* f"{name}__{tool.name}"
QualifiedName(name, local) == name \o Sep \o local

\* Mutant of Description: the default is used only when the description is
\* None; an empty description is kept.
DescriptionOrDefault(tool) ==
    IF tool.description = None THEN ToolPrefix \o tool.name
    ELSE tool.description[1]

\* tool.description or f"Tool: {tool.name}"
Description(tool) ==
    IF tool.description = None \/ tool.description[1] = <<>>
    THEN ToolPrefix \o tool.name
    ELSE tool.description[1]

ToolDef(name, tool) ==
    [name         |-> QualifiedName(name, tool.name),
     description  |-> Description(tool),
     input_schema |-> tool.inputSchema]

\* Mutant of Put: dict.setdefault(key, value), the first value is kept.
PutIfAbsent(d, k, v) == [x \in DOMAIN d \cup {k} |-> IF x \in DOMAIN d THEN d[x] ELSE v]

\* dict[key] = value
Put(d, k, v) == [x \in DOMAIN d \cup {k} |-> IF x = k THEN v ELSE d[x]]

\* dict.get(key): None when the key is absent.
Get(d, k) == IF k \in DOMAIN d THEN Some(d[k]) ELSE None

\* Mutant of RegisterTools: a descriptor is appended only when the list holds
\* none of that qualified name.
RECURSIVE RegisterToolsOnce(_, _, _)
RegisterToolsOnce(reg, name, listing) ==
    IF listing = <<>> THEN reg
    ELSE RegisterToolsOnce(
            [tools          |-> IF \E i \in 1..Len(reg.tools) :
                                      reg.tools[i].name = QualifiedName(name, listing[1].name)
                                THEN reg.tools
                                ELSE Append(reg.tools, ToolDef(name, listing[1])),
             tool_to_server |-> Put(reg.tool_to_server,
                                    QualifiedName(name, listing[1].name), name)],
            name, Tail(listing))

\* The loop of connect_to_server over tools_response.tools, from a registry
\* reg = [tools, tool_to_server].
RECURSIVE RegisterTools(_, _, _)
RegisterTools(reg, name, listing) ==
    IF listing = <<>> THEN reg
    ELSE RegisterTools(
            [tools          |-> Append(reg.tools, ToolDef(name, listing[1])),
             tool_to_server |-> Put(reg.tool_to_server,
                                    QualifiedName(name, listing[1].name), name)],
            name, Tail(listing))

RECURSIVE Pairs(_, _)
Pairs(name, listing) ==
    IF listing = <<>> THEN <<>>
    ELSE <<<<name, listing[1].name>>>> \o Pairs(name, Tail(listing))

\* The names and listings the servers of the model can have.
ServerNames == {<<>>, <<"a">>, <<"a", "_", "_", "b">>}
LocalNames  == {<<"c">>, <<"b", "_", "_", "c">>}
Schema      == <<"S">>
RawTools ==
    {[name |-> <<"c">>, description |-> None, inputSchema |-> Schema],
     [name |-> <<"b", "_", "_", "c">>, description |-> Some(<<"d">>), inputSchema |-> Schema]}

SeqsUpTo(S, n) == UNION {[1..k -> S] : k \in 0..n}
Listings == SeqsUpTo(RawTools, MaxTools)

\* server_configs is a dict loaded from JSON: its keys are pairwise distinct.
Configs ==
    {c \in SeqsUpTo([name : ServerNames, enabled : BOOLEAN], MaxServers) :
        \A i, j \in 1..Len(c) : i # j => c[i].name # c[j].name}

\* Mutant of Enabled: config.get("enabled"), without the default.
EnabledIfSet(config) == "enabled" \in DOMAIN config /\ config.enabled

\* config.get("enabled", True): a configuration without the field is enabled.
Enabled(config) == IF "enabled" \in DOMAIN config THEN config.enabled ELSE TRUE

NoCall == [called |-> FALSE, tool_name |-> <<>>, raised |-> FALSE,
           value |-> <<>>, invoked |-> <<>>]
NoTurn == [status |-> "none", start |-> <<>>, user |-> <<>>, model_calls |-> 0,
           dispatches |-> 0, rounds |-> 0, first |-> None, len_at_response |-> 0,
           final |-> None, answer |-> <<>>]

FreshSession ==
    /\ basket = <<>>
    /\ discount_code = None
    /\ discount_amount = 0
    /\ conversation_history = <<>>
    /\ user_location = None
    /\ user_preferences = <<>>
    /\ current_order_id = None

\* One host, whose attributes the variables above hold by value.
SingleHost ==
    /\ heap = <<>>
    /\ hosts = <<>>

\* BasketManager.__init__
NewBasketManager == [items |-> <<>>, discount_code |-> None, discount_amount |-> 0]

\* main() before its first input, with nothing released.
MainStart ==
    /\ line = None
    /\ user_input = None
    /\ printed = None
    /\ released = <<>>
    /\ cleanups = 0

IdleChat ==
    /\ pc = "idle"
    /\ system_prompt = <<>>
    /\ response = <<>>
    /\ tool_results = <<>>
    /\ block_idx = 0
    /\ turn = NoTurn

\* MCPHost.__init__ followed by the entry of main().
InitRegistry ==
    /\ server_configs \in Configs
    /\ sessions = <<>>
    /\ tools = <<>>
    /\ tool_to_server = <<>>
    /\ exit_stack = <<>>
    /\ opened = <<>>
    /\ SingleHost
    /\ MainStart
    /\ manager = NewBasketManager
    /\ FreshSession
    /\ IdleChat
    /\ phase = "startup"
    /\ cfg_idx = 1
    /\ ev = [op |-> "init"]
    /\ registered = <<>>
    /\ last_call = NoCall

\* connect_all_servers: a server with enabled = false is skipped.
SkipDisabled ==
    /\ phase = "startup"
    /\ cfg_idx <= Len(server_configs)
    /\ ~Enabled(server_configs[cfg_idx])
    /\ cfg_idx' = cfg_idx + 1
    /\ ev' = [op |-> "skip", name |-> server_configs[cfg_idx].name]
    /\ UNCHANGED <<mainVars, hostVars, contextVars, conversation_history, chatVars,
                   phase, registered, last_call>>

\* The contexts connect_to_server enters on the exit stack for a server: the
\* stdio transport, then the client session.
Entered(name) ==
    <<[kind |-> "stdio_client", server |-> name],
      [kind |-> "ClientSession", server |-> name]>>

\* Mutant of ConnectToServer: self.tools and self.tool_to_server are assigned
\* this server's tools instead of being extended by them.
ConnectToServerAssign(host, name, handle, listing) ==
    LET reg == RegisterTools([tools |-> <<>>, tool_to_server |-> <<>>], name, listing)
    IN [sessions       |-> Put(host.sessions, name, handle),
        tools          |-> reg.tools,
        tool_to_server |-> reg.tool_to_server,
        registered     |-> host.registered \o Pairs(name, listing),
        exit_stack     |-> host.exit_stack \o Entered(name),
        opened         |-> host.opened \o Entered(name)]

\* Mutant of ConnectToServer: self.sessions is assigned a dict that holds this
\* server's session alone.
ConnectToServerOneSession(host, name, handle, listing) ==
    LET reg == RegisterTools([tools |-> host.tools,
                              tool_to_server |-> host.tool_to_server],
                             name, listing)
    IN [sessions       |-> Put(<<>>, name, handle),
        tools          |-> reg.tools,
        tool_to_server |-> reg.tool_to_server,
        registered     |-> host.registered \o Pairs(name, listing),
        exit_stack     |-> host.exit_stack \o Entered(name),
        opened         |-> host.opened \o Entered(name)]

\* connect_to_server returns: the transport and the session are entered on
\* the exit stack, the session is stored, then every listed tool is
\* appended to self.tools and routed in self.tool_to_server. host is the
\* record of the host's tables before the call, the value the one after it.
ConnectToServer(host, name, handle, listing) ==
    LET reg == RegisterTools([tools |-> host.tools,
                              tool_to_server |-> host.tool_to_server],
                             name, listing)
    IN [sessions       |-> Put(host.sessions, name, handle),
        tools          |-> reg.tools,
        tool_to_server |-> reg.tool_to_server,
        registered     |-> host.registered \o Pairs(name, listing),
        exit_stack     |-> host.exit_stack \o Entered(name),
        opened         |-> host.opened \o Entered(name)]

Host == [sessions |-> sessions, tools |-> tools,
         tool_to_server |-> tool_to_server, registered |-> registered,
         exit_stack |-> exit_stack, opened |-> opened]

SetHost(h) ==
    /\ sessions' = h.sessions
    /\ tools' = h.tools
    /\ tool_to_server' = h.tool_to_server
    /\ registered' = h.registered
    /\ exit_stack' = h.exit_stack
    /\ opened' = h.opened

ConnectOk ==
    /\ phase = "startup"
    /\ cfg_idx <= Len(server_configs)
    /\ Enabled(server_configs[cfg_idx])
    /\ \E listing \in Listings :
          /\ SetHost(ConnectToServer(Host, server_configs[cfg_idx].name, cfg_idx, listing))
          /\ ev' = [op |-> "connect", name |-> server_configs[cfg_idx].name,
                    listing |-> listing]
    /\ cfg_idx' = cfg_idx + 1
    /\ UNCHANGED <<worldVars, exitVars, cliVars, server_configs, contextVars,
                   conversation_history, chatVars, phase, last_call>>

\* The stages at which connect_to_server can raise: entering the transport
\* (the spawn), entering the client session, session.initialize (the
\* handshake), session.list_tools.
FailStages == {"spawn", "session", "initialize", "list_tools"}

\* The contexts already entered when connect_to_server raises at stage.
EnteredBefore(name, stage) ==
    IF stage = "spawn" THEN <<>>
    ELSE IF stage = "session" THEN SubSeq(Entered(name), 1, 1)
    ELSE Entered(name)

\* Mutant of ConnectFail: the failure ends the loop over the servers.
ConnectFailStops ==
    /\ phase = "startup"
    /\ cfg_idx <= Len(server_configs)
    /\ Enabled(server_configs[cfg_idx])
    /\ \E stage \in FailStages :
          /\ sessions' = IF stage = "list_tools"
                         THEN Put(sessions, server_configs[cfg_idx].name, cfg_idx)
                         ELSE sessions
          /\ exit_stack' = exit_stack \o EnteredBefore(server_configs[cfg_idx].name, stage)
          /\ opened' = opened \o EnteredBefore(server_configs[cfg_idx].name, stage)
          /\ ev' = [op |-> "connect_failed", name |-> server_configs[cfg_idx].name,
                    stage |-> stage]
    /\ cfg_idx' = Len(server_configs) + 1
    /\ UNCHANGED <<worldVars, exitVars, cliVars, server_configs, tools, tool_to_server,
                   contextVars, conversation_history, chatVars, phase, registered,
                   last_call>>

\* connect_to_server raises an Exception, and connect_all_servers catches it:
\* what was entered on the exit stack stays there, self.sessions[name] is set
\* only when list_tools is what failed, and the loop goes on.
ConnectFail ==
    /\ phase = "startup"
    /\ cfg_idx <= Len(server_configs)
    /\ Enabled(server_configs[cfg_idx])
    /\ \E stage \in FailStages :
          /\ sessions' = IF stage = "list_tools"
                         THEN Put(sessions, server_configs[cfg_idx].name, cfg_idx)
                         ELSE sessions
          /\ exit_stack' = exit_stack \o EnteredBefore(server_configs[cfg_idx].name, stage)
          /\ opened' = opened \o EnteredBefore(server_configs[cfg_idx].name, stage)
          /\ ev' = [op |-> "connect_failed", name |-> server_configs[cfg_idx].name,
                    stage |-> stage]
    /\ cfg_idx' = cfg_idx + 1
    /\ UNCHANGED <<worldVars, exitVars, cliVars, server_configs, tools, tool_to_server,
                   contextVars, conversation_history, chatVars, phase, registered,
                   last_call>>

\* connect_all_servers returns and main() enters its input loop.
StartupDone ==
    /\ phase = "startup"
    /\ cfg_idx > Len(server_configs)
    /\ phase' = "ready"
    /\ ev' = [op |-> "ready"]
    /\ UNCHANGED <<mainVars, hostVars, contextVars, conversation_history, chatVars,
                   cfg_idx, registered, last_call>>

----------------------------------------------------------------------------
\* The registration of tools by what the server says about them: no
\* description, an empty one, a text.

DescribedTools ==
    [name : {<<"c">>, <<"e">>},
     description : {None, Some(<<>>), Some(<<"d">>)},
     inputSchema : {Schema}]
DescribedListings == SeqsUpTo(DescribedTools, MaxTools)

\* connect_to_server returns for a server that lists such tools.
ConnectDescribed ==
    /\ phase = "startup"
    /\ cfg_idx <= Len(server_configs)
    /\ Enabled(server_configs[cfg_idx])
    /\ \E listing \in DescribedListings :
          /\ SetHost(ConnectToServer(Host, server_configs[cfg_idx].name, cfg_idx, listing))
          /\ ev' = [op |-> "connect", name |-> server_configs[cfg_idx].name,
                    listing |-> listing]
    /\ cfg_idx' = cfg_idx + 1
    /\ UNCHANGED <<worldVars, exitVars, cliVars, server_configs, contextVars,
                   conversation_history, chatVars, phase, last_call>>

\* A host configured with the servers a and a__b, both enabled.
InitDescribed ==
    /\ InitRegistry
    /\ server_configs = <<[name |-> <<"a">>, enabled |-> TRUE],
                          [name |-> <<"a", "_", "_", "b">>, enabled |-> TRUE]>>

NextDescribed == ConnectDescribed \/ StartupDone

SpecDescribed == InitDescribed /\ [][NextDescribed]_vars

----------------------------------------------------------------------------
\* Startup over configurations whose "enabled" field is optional.

\* The configurations of a server: "enabled" true, false, or not given.
ServerConfigs ==
    [name : ServerNames, enabled : BOOLEAN] \cup [name : ServerNames]

OptionalConfigs ==
    {c \in SeqsUpTo(ServerConfigs, MaxServers) :
        \A i, j \in 1..Len(c) : i # j => c[i].name # c[j].name}

InitConfigured ==
    /\ server_configs \in OptionalConfigs
    /\ sessions = <<>>
    /\ tools = <<>>
    /\ tool_to_server = <<>>
    /\ exit_stack = <<>>
    /\ opened = <<>>
    /\ SingleHost
    /\ MainStart
    /\ manager = NewBasketManager
    /\ FreshSession
    /\ IdleChat
    /\ phase = "startup"
    /\ cfg_idx = 1
    /\ ev = [op |-> "init"]
    /\ registered = <<>>
    /\ last_call = NoCall

NextConfigured == SkipDisabled \/ ConnectOk \/ ConnectFail \/ StartupDone

SpecConfigured == InitConfigured /\ [][NextConfigured]_vars

----------------------------------------------------------------------------
\* Dispatch: call_tool.

\* What session.call_tool can do: return a result that has a content sequence
\* (each part with a text or without one), return a result without one, or
\* raise (a transport fault or an error the server reports).
TextPart(t)  == [has_text |-> TRUE,  text |-> t,    repr |-> <<"T">>]
OtherPart(r) == [has_text |-> FALSE, text |-> <<>>, repr |-> r]
ContentResult(parts) ==
    [kind |-> "result", has_content |-> TRUE, content |-> parts,
     repr |-> <<"C">>, msg |-> <<>>]
OpaqueResult(r) ==
    [kind |-> "result", has_content |-> FALSE, content |-> <<>>,
     repr |-> r, msg |-> <<>>]
Raises(m) ==
    [kind |-> "raise", has_content |-> FALSE, content |-> <<>>,
     repr |-> <<>>, msg |-> m]

ServerOutcomes ==
    {ContentResult(<<TextPart(<<"r">>), OtherPart(<<"I">>)>>),
     ContentResult(<<>>),
     OpaqueResult(<<"R">>),
     Raises(<<"e", "\"">>)}

Arguments == {<<"A">>}

\* The body of the try block once the server has answered: the parts' text,
\* or their string form, joined by newlines; str(result) without a content.
RECURSIVE Contents(_)
Contents(parts) ==
    IF parts = <<>> THEN <<>>
    ELSE <<IF parts[1].has_text THEN parts[1].text ELSE parts[1].repr>>
         \o Contents(Tail(parts))

\* Mutant of Normalize: str(result), whether the result has a content or not.
NormalizeAsString(result) == result.repr

Normalize(result) ==
    IF result.has_content THEN Join(Newline, Contents(result.content))
    ELSE result.repr

\* `if not server_name`: None and the empty string are both false.
NotServerName(opt) == opt = None \/ opt[1] = <<>>

\* Mutant of CallTool: self.tool_to_server[tool_name] instead of .get, and no
\* handler around the invocation.
CallToolUnguarded(tool_name, arguments, outcome) ==
    LET parts == SplitFirst(tool_name)
        base  == [called |-> TRUE, tool_name |-> tool_name, raised |-> FALSE,
                  value |-> <<>>, invoked |-> <<>>]
    IN IF tool_name \notin DOMAIN tool_to_server \/ Len(parts) < 2
       THEN [base EXCEPT !.raised = TRUE]
       ELSE LET call == [session |-> sessions[tool_to_server[tool_name]],
                         server |-> tool_to_server[tool_name],
                         name |-> parts[2], arguments |-> arguments,
                         outcome |-> outcome]
            IN [base EXCEPT
                  !.invoked = <<call>>,
                  !.raised = (outcome.kind = "raise"),
                  !.value = IF outcome.kind = "raise" THEN <<>>
                            ELSE Normalize(outcome)]

\* call_tool(tool_name, arguments) when the server answers with outcome:
\* the string returned or the exception raised, and the invocations made.
CallTool(tool_name, arguments, outcome) ==
    LET server_name == Get(tool_to_server, tool_name)
        parts       == SplitFirst(tool_name)
        base        == [called |-> TRUE, tool_name |-> tool_name, raised |-> FALSE,
                        value |-> <<>>, invoked |-> <<>>]
    IN IF NotServerName(server_name)
       THEN [base EXCEPT !.value = JsonDumpsError(UnknownPrefix \o tool_name)]
       ELSE IF Len(parts) < 2                       \* IndexError at [1]
       THEN [base EXCEPT !.raised = TRUE]
       ELSE IF server_name[1] \notin DOMAIN sessions  \* KeyError
       THEN [base EXCEPT !.raised = TRUE]
       ELSE LET call == [session |-> sessions[server_name[1]],
                         server |-> server_name[1],
                         name |-> parts[2], arguments |-> arguments,
                         outcome |-> outcome]
            IN [base EXCEPT
                  !.invoked = <<call>>,
                  !.value = IF outcome.kind = "raise"
                            THEN JsonDumpsError(outcome.msg)
                            ELSE Normalize(outcome)]

\* The tool names a caller (the model) can ask for: every name a server of
\* the model can register, and names no server registers.
ToolNames ==
    {QualifiedName(s, l) : s \in ServerNames, l \in LocalNames}
    \cup {<<"x">>, <<"a", "_", "_", "\"">>}

\* call_tool called once startup is over. call_tool changes nothing of the
\* host, so what a call does is the same after any number of earlier calls: a
\* behaviour makes one.
DirectCall ==
    /\ phase = "ready"
    /\ pc = "idle"
    /\ ~last_call.called
    /\ \E tool_name \in ToolNames, arguments \in Arguments, outcome \in ServerOutcomes :
          /\ last_call' = CallTool(tool_name, arguments, outcome)
          /\ ev' = [op |-> "call_tool", tool_name |-> tool_name]
    /\ UNCHANGED <<mainVars, hostVars, contextVars, conversation_history, chatVars,
                   phase, cfg_idx, registered>>

NextRegistry == SkipDisabled \/ ConnectOk \/ ConnectFail \/ StartupDone \/ DirectCall

SpecRegistry == InitRegistry /\ [][NextRegistry]_vars
----------------------------------------------------------------------------
\* SessionState: the derived views the system prompt reads.

\* sum(item.quantity for item in self.basket)
RECURSIVE ItemCount(_)
ItemCount(items) ==
    IF items = <<>> THEN 0 ELSE items[1].quantity + ItemCount(Tail(items))

\* sum(item.subtotal for item in self.basket), subtotal = price * quantity
RECURSIVE Total(_)
Total(items) ==
    IF items = <<>> THEN 0
    ELSE items[1].price * items[1].quantity + Total(Tail(items))

basket_item_count == ItemCount(basket)
basket_total      == Total(basket)

\* The session context lines of PromptBuilder.build_system_prompt.
BuildSystemPrompt(location, item_count, total) ==
    [location |-> IF location # None /\ location[1] # <<>>
                  THEN <<"destination", location[1]>>
                  ELSE <<"location not yet known">>,
     basket   |-> IF item_count > 0
                  THEN <<"items", item_count, "total", total>>
                  ELSE <<"empty">>]

----------------------------------------------------------------------------
\* Conversation: chat.

\* Messages. A content is a str (the user's text) or a list (of blocks or of
\* tool results).
UserMessage(text)         == [role |-> "user", content |-> [str |-> text]]
AssistantMessage(content) == [role |-> "assistant", content |-> [list |-> content]]
\* Mutant of ResultsMessage: the results are sent under a role of their own.
ResultsMessageAsTool(results) == [role |-> "tool", content |-> [list |-> results]]

ResultsMessage(results)   == [role |-> "user", content |-> [list |-> results]]

\* Mutant of AppendMessage: list.insert(0, message).
PrependMessage(history, message) == <<message>> \o history

\* Mutant of AppendMessage: the message takes the place of the last one.
ReplaceLastMessage(history, message) ==
    IF history = <<>> THEN <<message>>
    ELSE [history EXCEPT ![Len(history)] = message]

\* conversation_history.append(message)
AppendMessage(history, message) == Append(history, message)

\* The blocks of a model response: a text block has a text, a tool_use block
\* has an id, a name and an input, and no text.
TextBlock(t) == [type |-> "text", text |-> t]
ToolUseBlock(id, name, input) ==
    [type |-> "tool_use", id |-> id, name |-> name, input |-> input]

Texts         == {<<"h">>, <<"i">>}
ToolUseIds    == {<<"1">>, <<"2">>}
ChatToolNames == {<<"b", "_", "_", "t">>}
UserMessages  == {<<"u">>}
Blocks ==
    {TextBlock(t) : t \in Texts}
    \cup {ToolUseBlock(id, n, a) : id \in ToolUseIds, n \in ChatToolNames, a \in Arguments}

\* What messages.create can return. The code reads stop_reason and content.
\* A response that ends the turn normally (end_turn) carries no tool_use block;
\* one cut off by the token limit (max_tokens) can carry any block.
StopReasons == {"tool_use", "end_turn", "max_tokens"}
Responses ==
    {r \in [stop_reason : StopReasons, content : SeqsUpTo(Blocks, MaxBlocks)] :
        r.stop_reason = "end_turn" =>
            \A i \in 1..Len(r.content) : r.content[i].type # "tool_use"}

\* What the servers of a chat session answer.
ChatOutcomes ==
    {ContentResult(<<TextPart(<<"r">>), OtherPart(<<"I">>)>>),
     Raises(<<"e", "\"">>)}

\* Mutant of FinalResponse: the texts joined by newlines.
RECURSIVE TextsOf(_)
TextsOf(content) ==
    IF content = <<>> THEN <<>>
    ELSE (IF "text" \in DOMAIN content[1] THEN <<content[1].text>> ELSE <<>>)
         \o TextsOf(Tail(content))

FinalResponseJoined(content) == Join(Newline, TextsOf(content))

\* Mutant of FinalResponse: response.content[0].text, the first block alone.
FinalResponseFirstBlock(content) ==
    IF content # <<>> /\ "text" \in DOMAIN content[1] THEN content[1].text ELSE <<>>

\* final_response: += block.text for every block that has a text.
RECURSIVE FinalResponse(_)
FinalResponse(content) ==
    IF content = <<>> THEN <<>>
    ELSE (IF "text" \in DOMAIN content[1] THEN content[1].text ELSE <<>>)
         \o FinalResponse(Tail(content))

\* Mutant of AddResult: the result is keyed by the tool's name.
AddResultByName(results, block, value) ==
    Append(results, [type |-> "tool_result", tool_use_id |-> block.name,
                     content |-> value])

\* Mutant of AddResult: the result is put in front of the earlier ones.
AddResultInFront(results, block, value) ==
    <<[type |-> "tool_result", tool_use_id |-> block.id, content |-> value]>>
    \o results

\* tool_results.append({"type": "tool_result", "tool_use_id": block.id, ...})
AddResult(results, block, value) ==
    Append(results, [type |-> "tool_result", tool_use_id |-> block.id,
                     content |-> value])

ClearLocals ==
    /\ system_prompt' = <<>>
    /\ response' = <<>>
    /\ tool_results' = <<>>
    /\ block_idx' = 0

\* chat(user_message), up to the first messages.create: the user message is
\* appended and the system prompt is built from the session context.
BeginTurn(user_message) ==
    /\ conversation_history' =
          AppendMessage(conversation_history, UserMessage(user_message))
    /\ turn' = [NoTurn EXCEPT !.status = "running",
                              !.start = conversation_history,
                              !.user = user_message]
    /\ system_prompt' = BuildSystemPrompt(user_location, basket_item_count, basket_total)
    /\ pc' = "call_model"

ChatBegin ==
    /\ phase = "ready"
    /\ pc = "idle"
    /\ Len(conversation_history) + 2 <= MaxHist
    /\ \E user_message \in UserMessages : BeginTurn(user_message)
    /\ ev' = [op |-> "chat"]
    /\ UNCHANGED <<mainVars, hostVars, contextVars, phase, cfg_idx, response,
                   tool_results, block_idx, registered, last_call>>

\* messages.create returns a response. A tool_use response is followed by
\* three more messages at least, which the history bound has to leave room for.
ModelRespond ==
    /\ pc = "call_model"
    /\ \E r \in Responses :
          /\ r.stop_reason = "tool_use" => Len(conversation_history) + 3 <= MaxHist
          /\ response' = r
          /\ turn' = [turn EXCEPT
                        !.model_calls = @ + 1,
                        !.first = IF turn.model_calls = 0 THEN Some(r) ELSE @,
                        !.len_at_response = Len(conversation_history)]
    /\ pc' = "got_response"
    /\ ev' = [op |-> "model", tools |-> tools]
    /\ UNCHANGED <<mainVars, hostVars, contextVars, conversation_history, phase, cfg_idx,
                   system_prompt, tool_results, block_idx, registered, last_call>>

\* Mutant of ModelFail: the exception is caught and turned into the answer of
\* the turn.
ModelFailAnswered ==
    /\ pc = "call_model"
    /\ pc' = "idle"
    /\ conversation_history' =
          AppendMessage(conversation_history, AssistantMessage(<<TextBlock(<<"e">>)>>))
    /\ turn' = [turn EXCEPT !.status = "returned", !.model_calls = @ + 1,
                            !.answer = <<"e">>]
    /\ ClearLocals
    /\ ev' = [op |-> "model_failed", tools |-> tools]
    /\ UNCHANGED <<mainVars, hostVars, contextVars, phase, cfg_idx, registered, last_call>>

\* messages.create raises: chat has no handler, the exception leaves chat.
ModelFail ==
    /\ pc = "call_model"
    /\ pc' = "idle"
    /\ turn' = [turn EXCEPT !.status = "raised", !.model_calls = @ + 1]
    /\ ClearLocals
    /\ ev' = [op |-> "model_failed", tools |-> tools]
    /\ UNCHANGED <<mainVars, hostVars, contextVars, conversation_history, phase, cfg_idx,
                   registered, last_call>>

\* while response.stop_reason == "tool_use": the assistant content is appended
\* and the loop over its blocks starts with no result.
LoopEnter ==
    /\ pc = "got_response"
    /\ response.stop_reason = "tool_use"
    /\ conversation_history' =
          AppendMessage(conversation_history, AssistantMessage(response.content))
    /\ tool_results' = <<>>
    /\ block_idx' = 1
    /\ pc' = "for_blocks"
    /\ turn' = [turn EXCEPT !.rounds = @ + 1]
    /\ ev' = [op |-> "loop"]
    /\ UNCHANGED <<mainVars, hostVars, contextVars, phase, cfg_idx, system_prompt, response,
                   registered, last_call>>

\* for block in assistant_content: a block that is no tool_use is passed over.
SkipBlock ==
    /\ pc = "for_blocks"
    /\ block_idx <= Len(response.content)
    /\ response.content[block_idx].type # "tool_use"
    /\ block_idx' = block_idx + 1
    /\ ev' = [op |-> "skip_block"]
    /\ UNCHANGED <<mainVars, hostVars, contextVars, conversation_history, phase, cfg_idx, pc,
                   system_prompt, response, tool_results, turn, registered, last_call>>

\* Mutant of DispatchBlock: the tool call is also applied to the basket of the
\* host's SessionState.
DispatchBlockIntoBasket ==
    /\ pc = "for_blocks"
    /\ block_idx <= Len(response.content)
    /\ response.content[block_idx].type = "tool_use"
    /\ \E outcome \in ChatOutcomes :
          LET block  == response.content[block_idx]
              result == CallTool(block.name, block.input, outcome)
          IN /\ last_call' = result
             /\ IF result.raised
                THEN /\ pc' = "idle"
                     /\ turn' = [turn EXCEPT !.status = "raised", !.dispatches = @ + 1]
                     /\ ClearLocals
                ELSE /\ pc' = pc
                     /\ turn' = [turn EXCEPT !.dispatches = @ + 1]
                     /\ tool_results' = AddResult(tool_results, block, result.value)
                     /\ block_idx' = block_idx + 1
                     /\ UNCHANGED <<system_prompt, response>>
    /\ basket' = Append(basket, [product_id |-> <<"p">>, name |-> <<"n">>,
                                 price |-> 2, quantity |-> 1])
    /\ ev' = [op |-> "dispatch"]
    /\ UNCHANGED <<mainVars, hostVars, discount_code, discount_amount, user_location,
                   user_preferences, current_order_id, conversation_history, phase,
                   cfg_idx, registered>>

\* for block in assistant_content: a tool_use block is dispatched by call_tool
\* and its result appended to tool_results; an exception of call_tool leaves
\* chat.
DispatchBlock ==
    /\ pc = "for_blocks"
    /\ block_idx <= Len(response.content)
    /\ response.content[block_idx].type = "tool_use"
    /\ \E outcome \in ChatOutcomes :
          LET block  == response.content[block_idx]
              result == CallTool(block.name, block.input, outcome)
          IN /\ last_call' = result
             /\ IF result.raised
                THEN /\ pc' = "idle"
                     /\ turn' = [turn EXCEPT !.status = "raised", !.dispatches = @ + 1]
                     /\ ClearLocals
                ELSE /\ pc' = pc
                     /\ turn' = [turn EXCEPT !.dispatches = @ + 1]
                     /\ tool_results' = AddResult(tool_results, block, result.value)
                     /\ block_idx' = block_idx + 1
                     /\ UNCHANGED <<system_prompt, response>>
    /\ ev' = [op |-> "dispatch"]
    /\ UNCHANGED <<mainVars, hostVars, contextVars, conversation_history, phase, cfg_idx,
                   registered>>

\* Mutant of LoopAppendResults: the results are appended and chat returns
\* without invoking the model again.
LoopAppendResultsAndReturn ==
    /\ pc = "for_blocks"
    /\ block_idx > Len(response.content)
    /\ conversation_history' =
          AppendMessage(conversation_history, ResultsMessage(tool_results))
    /\ turn' = [turn EXCEPT !.status = "returned",
                            !.final = Some(response),
                            !.answer = FinalResponse(response.content)]
    /\ pc' = "idle"
    /\ ClearLocals
    /\ ev' = [op |-> "results"]
    /\ UNCHANGED <<mainVars, hostVars, contextVars, phase, cfg_idx, registered, last_call>>

\* Mutant of LoopAppendResults: a round that produced no result appends no
\* tool-result message.
LoopAppendResultsIfAny ==
    /\ pc = "for_blocks"
    /\ block_idx > Len(response.content)
    /\ conversation_history' =
          IF tool_results = <<>> THEN conversation_history
          ELSE AppendMessage(conversation_history, ResultsMessage(tool_results))
    /\ pc' = "call_model"
    /\ ev' = [op |-> "results"]
    /\ UNCHANGED <<mainVars, hostVars, contextVars, phase, cfg_idx, system_prompt, response,
                   tool_results, block_idx, turn, registered, last_call>>

\* The loop over the blocks is over: the results are appended as one user
\* message, and messages.create is called again.
LoopAppendResults ==
    /\ pc = "for_blocks"
    /\ block_idx > Len(response.content)
    /\ conversation_history' =
          AppendMessage(conversation_history, ResultsMessage(tool_results))
    /\ pc' = "call_model"
    /\ ev' = [op |-> "results"]
    /\ UNCHANGED <<mainVars, hostVars, contextVars, phase, cfg_idx, system_prompt, response,
                   tool_results, block_idx, turn, registered, last_call>>

\* Mutant of ChatReturn: an iteration cap, the loop is also left after two
\* rounds whatever the stop reason.
ChatReturnCapped ==
    /\ pc = "got_response"
    /\ response.stop_reason # "tool_use" \/ turn.rounds >= 2
    /\ conversation_history' =
          AppendMessage(conversation_history, AssistantMessage(response.content))
    /\ turn' = [turn EXCEPT !.status = "returned",
                            !.final = Some(response),
                            !.answer = FinalResponse(response.content)]
    /\ pc' = "idle"
    /\ ClearLocals
    /\ ev' = [op |-> "return"]
    /\ UNCHANGED <<mainVars, hostVars, contextVars, phase, cfg_idx, registered, last_call>>

\* The loop is left: the texts of the response are concatenated, the response
\* content is appended as the assistant message, and chat returns.
ChatReturn ==
    /\ pc = "got_response"
    /\ response.stop_reason # "tool_use"
    /\ conversation_history' =
          AppendMessage(conversation_history, AssistantMessage(response.content))
    /\ turn' = [turn EXCEPT !.status = "returned",
                            !.final = Some(response),
                            !.answer = FinalResponse(response.content)]
    /\ pc' = "idle"
    /\ ClearLocals
    /\ ev' = [op |-> "return"]
    /\ UNCHANGED <<mainVars, hostVars, contextVars, phase, cfg_idx, registered, last_call>>

\* The fields of the session that differ from those of a new SessionState.
NonDefault ==
    {f \in {"basket", "discount_code", "discount_amount", "conversation_history",
            "user_location", "user_preferences", "current_order_id"} :
        \/ f = "basket" /\ basket # <<>>
        \/ f = "discount_code" /\ discount_code # None
        \/ f = "discount_amount" /\ discount_amount # 0
        \/ f = "conversation_history" /\ conversation_history # <<>>
        \/ f = "user_location" /\ user_location # None
        \/ f = "user_preferences" /\ DOMAIN user_preferences # {}
        \/ f = "current_order_id" /\ current_order_id # None}

\* Mutant of Reset: the user context is not cleared.
ResetKeepsUserContext ==
    /\ basket' = <<>>
    /\ discount_code' = None
    /\ discount_amount' = 0
    /\ conversation_history' = <<>>
    /\ UNCHANGED <<user_location, user_preferences>>
    /\ current_order_id' = None

\* SessionState.reset: seven assignments with no suspension point between
\* them.
Reset ==
    /\ basket' = <<>>
    /\ discount_code' = None
    /\ discount_amount' = 0
    /\ conversation_history' = <<>>
    /\ user_location' = None
    /\ user_preferences' = <<>>
    /\ current_order_id' = None

\* Mutant of ResetSession: the registry is emptied with the session.
ResetSessionAndRegistry ==
    /\ phase = "ready"
    /\ pc = "idle"
    /\ Reset
    /\ tools' = <<>>
    /\ tool_to_server' = <<>>
    /\ ev' = [op |-> "reset", cleared |-> NonDefault]
    /\ turn' = NoTurn
    /\ UNCHANGED <<mainVars, server_configs, sessions, phase, cfg_idx, pc, system_prompt,
                   response, tool_results, block_idx, registered, last_call>>

\* reset_session, which main() calls between two turns.
ResetSession ==
    /\ phase = "ready"
    /\ pc = "idle"
    /\ Reset
    /\ ev' = [op |-> "reset", cleared |-> NonDefault]
    /\ turn' = NoTurn
    /\ UNCHANGED <<mainVars, hostVars, phase, cfg_idx, pc, system_prompt, response,
                   tool_results, block_idx, registered, last_call>>

\* The startups a chat session begins after: connect_all_servers has connected
\* the servers of scenario, each with its listing.
RECURSIVE Startup(_, _, _)
Startup(host, scenario, k) ==
    IF k > Len(scenario) THEN host
    ELSE Startup(ConnectToServer(host, scenario[k].name, k, scenario[k].listing),
                 scenario, k + 1)

ChatTool == [name |-> <<"t">>, description |-> None, inputSchema |-> Schema]
ChatScenarios ==
    {<<>>,
     <<[name |-> <<"b">>, listing |-> <<ChatTool>>]>>,
     <<[name |-> <<"b">>, listing |-> <<ChatTool>>], [name |-> <<"w">>, listing |-> <<>>]>>}

EmptyHost == [sessions |-> <<>>, tools |-> <<>>, tool_to_server |-> <<>>,
              registered |-> <<>>, exit_stack |-> <<>>, opened |-> <<>>]

\* A session after startup: main() is at its input loop with a fresh state.
InitChat ==
    /\ \E scenario \in ChatScenarios :
          LET h == Startup(EmptyHost, scenario, 1)
          IN /\ server_configs =
                   [k \in 1..Len(scenario) |-> [name |-> scenario[k].name, enabled |-> TRUE]]
             /\ sessions = h.sessions
             /\ tools = h.tools
             /\ tool_to_server = h.tool_to_server
             /\ registered = h.registered
             /\ exit_stack = h.exit_stack
             /\ opened = h.opened
             /\ cfg_idx = Len(scenario) + 1
    /\ SingleHost
    /\ MainStart
    /\ manager = NewBasketManager
    /\ FreshSession
    /\ IdleChat
    /\ phase = "ready"
    /\ ev = [op |-> "ready"]
    /\ last_call = NoCall

NextChat ==
    \/ ChatBegin \/ ModelRespond \/ ModelFail \/ LoopEnter \/ SkipBlock
    \/ DispatchBlock \/ LoopAppendResults \/ ChatReturn \/ ResetSession

SpecChat == InitChat /\ [][NextChat]_vars

----------------------------------------------------------------------------
\* SessionState: the operations on the contextual fields.

ProductIds     == {<<"p">>, <<"q">>}
ProductNames   == {<<"n">>}
Prices         == {2, 3}
DiscountCodes  == {<<"d">>}
DiscountAmounts == {1, 5}
Locations      == {<<"L">>}
Preferences    == {Put(<<>>, <<"k">>, <<"v">>)}
OrderIds       == {<<"o">>}

\* The position of the first item with product_id in items, 0 without one.
FirstItem(items, product_id) ==
    LET hits == {i \in 1..Len(items) : items[i].product_id = product_id}
    IN IF hits = {} THEN 0 ELSE CHOOSE i \in hits : \A j \in hits : i <= j

\* add_to_basket: the quantity of the first item with that product is raised,
\* or a new item is appended.
AddToBasket ==
    /\ phase = "ready"
    /\ pc = "idle"
    /\ \E product_id \in ProductIds, name \in ProductNames, price \in Prices,
          quantity \in 1..MaxQty :
          LET i == FirstItem(basket, product_id)
          IN IF i # 0
             THEN /\ basket[i].quantity + quantity <= MaxQty
                  /\ basket' = [basket EXCEPT ![i].quantity = @ + quantity]
             ELSE basket' = Append(basket, [product_id |-> product_id, name |-> name,
                                            price |-> price, quantity |-> quantity])
    /\ ev' = [op |-> "add_to_basket"]
    /\ UNCHANGED <<mainVars, hostVars, discount_code, discount_amount, conversation_history,
                   user_location, user_preferences, current_order_id, chatVars,
                   phase, cfg_idx, registered, last_call>>

\* remove_from_basket: the first item with that product is removed, if any.
RemoveFromBasket ==
    /\ phase = "ready"
    /\ pc = "idle"
    /\ \E product_id \in ProductIds :
          LET i == FirstItem(basket, product_id)
          IN basket' = IF i = 0 THEN basket
                       ELSE SubSeq(basket, 1, i - 1) \o SubSeq(basket, i + 1, Len(basket))
    /\ ev' = [op |-> "remove_from_basket"]
    /\ UNCHANGED <<mainVars, hostVars, discount_code, discount_amount, conversation_history,
                   user_location, user_preferences, current_order_id, chatVars,
                   phase, cfg_idx, registered, last_call>>

\* clear_basket
ClearBasket ==
    /\ phase = "ready"
    /\ pc = "idle"
    /\ basket' = <<>>
    /\ discount_code' = None
    /\ discount_amount' = 0
    /\ ev' = [op |-> "clear_basket"]
    /\ UNCHANGED <<mainVars, hostVars, conversation_history, user_location, user_preferences,
                   current_order_id, chatVars, phase, cfg_idx, registered, last_call>>

\* apply_discount(code, amount)
ApplyDiscount ==
    /\ phase = "ready"
    /\ pc = "idle"
    /\ \E code \in DiscountCodes, amount \in DiscountAmounts :
          /\ discount_code' = Some(code)
          /\ discount_amount' = amount
    /\ ev' = [op |-> "apply_discount"]
    /\ UNCHANGED <<mainVars, hostVars, basket, conversation_history, user_location,
                   user_preferences, current_order_id, chatVars, phase, cfg_idx,
                   registered, last_call>>

\* The user context and the order id are plain fields of the dataclass: a
\* collaborator assigns them.
SetUserContext ==
    /\ phase = "ready"
    /\ pc = "idle"
    /\ \/ \E l \in Locations : user_location' = Some(l)
             /\ UNCHANGED <<user_preferences, current_order_id>>
       \/ \E prefs \in Preferences : user_preferences' = prefs
             /\ UNCHANGED <<user_location, current_order_id>>
       \/ \E o \in OrderIds : current_order_id' = Some(o)
             /\ UNCHANGED <<user_location, user_preferences>>
    /\ ev' = [op |-> "set_field"]
    /\ UNCHANGED <<mainVars, hostVars, basket, discount_code, discount_amount,
                   conversation_history, chatVars, phase, cfg_idx, registered,
                   last_call>>

\* The histories a session is given here: none, a turn whose model call
\* failed, a turn answered with a text.
SessionHistories ==
    {<<>>,
     <<UserMessage(<<"u">>)>>,
     <<UserMessage(<<"u">>), AssistantMessage(<<TextBlock(<<"h">>)>>)>>}

\* A SessionState of a host without servers, with the history of earlier turns.
InitSession ==
    /\ server_configs = <<>>
    /\ sessions = <<>>
    /\ tools = <<>>
    /\ tool_to_server = <<>>
    /\ registered = <<>>
    /\ exit_stack = <<>>
    /\ opened = <<>>
    /\ SingleHost
    /\ MainStart
    /\ manager = NewBasketManager
    /\ cfg_idx = 1
    /\ basket = <<>>
    /\ discount_code = None
    /\ discount_amount = 0
    /\ conversation_history \in SessionHistories
    /\ user_location = None
    /\ user_preferences = <<>>
    /\ current_order_id = None
    /\ IdleChat
    /\ phase = "ready"
    /\ ev = [op |-> "ready"]
    /\ last_call = NoCall

NextSession ==
    \/ AddToBasket \/ RemoveFromBasket \/ ClearBasket \/ ApplyDiscount
    \/ SetUserContext \/ ResetSession

SpecSession == InitSession /\ [][NextSession]_vars

----------------------------------------------------------------------------
\* The baskets: SessionState's in the host, BasketManager's in the basket
\* server. The two are objects of different processes.

\* Mutant of AtLeast0: the difference as it is.
NotFloored(x) == x

\* max(0, x)
AtLeast0(x) == IF x > 0 THEN x ELSE 0

\* SessionState.basket_total_with_discount
basket_total_with_discount == AtLeast0(basket_total - discount_amount)

\* BasketManager.subtotal, total and item_count of a manager m.
ManagerSubtotal(m)  == Total(m.items)
ManagerTotal(m)     == AtLeast0(ManagerSubtotal(m) - m.discount_amount)
ManagerItemCount(m) == ItemCount(m.items)

\* BasketItem.to_dict
ToDict(item) ==
    [product_id |-> item.product_id, name |-> item.name, price |-> item.price,
     quantity |-> item.quantity, subtotal |-> item.price * item.quantity]

ItemNotFound == <<"I", "t", "e", "m", " ", "n", "o", "t", " ", "f", "o", "u", "n", "d",
                  ":", " ">>
NotFoundResult(product_id) == [success |-> FALSE, error |-> ItemNotFound \o product_id]

\* Mutant of AddItem: the item is appended without the search for the product.
AddItemAppends(m, product_id, name, price, quantity) ==
    LET new_item == [product_id |-> product_id, name |-> name, price |-> price,
                     quantity |-> quantity]
        after    == [m EXCEPT !.items = Append(@, new_item)]
    IN [manager |-> after,
        result  |-> [success |-> TRUE, action |-> "added", item |-> ToDict(new_item),
                     basket_total |-> ManagerTotal(after),
                     item_count |-> ManagerItemCount(after)]]

\* BasketManager.add_item on manager m: the manager after the call and the
\* dict returned.
AddItem(m, product_id, name, price, quantity) ==
    LET i == FirstItem(m.items, product_id)
    IN IF i # 0
       THEN LET after == [m EXCEPT !.items[i].quantity = @ + quantity]
            IN [manager |-> after,
                result  |-> [success |-> TRUE, action |-> "updated",
                             item |-> ToDict(after.items[i]),
                             basket_total |-> ManagerTotal(after),
                             item_count |-> ManagerItemCount(after)]]
       ELSE LET new_item == [product_id |-> product_id, name |-> name,
                             price |-> price, quantity |-> quantity]
                after    == [m EXCEPT !.items = Append(@, new_item)]
            IN [manager |-> after,
                result  |-> [success |-> TRUE, action |-> "added",
                             item |-> ToDict(new_item),
                             basket_total |-> ManagerTotal(after),
                             item_count |-> ManagerItemCount(after)]]

\* BasketManager.remove_item
RemoveItem(m, product_id) ==
    LET i == FirstItem(m.items, product_id)
    IN IF i # 0
       THEN LET after == [m EXCEPT !.items = SubSeq(@, 1, i - 1)
                                             \o SubSeq(@, i + 1, Len(@))]
            IN [manager |-> after,
                result  |-> [success |-> TRUE, removed |-> ToDict(m.items[i]),
                             basket_total |-> ManagerTotal(after),
                             item_count |-> ManagerItemCount(after)]]
       ELSE [manager |-> m, result |-> NotFoundResult(product_id)]

\* Mutant of UpdateQuantity: the quantity is assigned whatever it is.
UpdateQuantityAssigns(m, product_id, quantity) ==
    LET i == FirstItem(m.items, product_id)
    IN IF i # 0
       THEN LET after == [m EXCEPT !.items[i].quantity = quantity]
            IN [manager |-> after,
                result  |-> [success |-> TRUE, item |-> ToDict(after.items[i]),
                             basket_total |-> ManagerTotal(after),
                             item_count |-> ManagerItemCount(after)]]
       ELSE [manager |-> m, result |-> NotFoundResult(product_id)]

\* BasketManager.update_quantity
UpdateQuantity(m, product_id, quantity) ==
    IF quantity <= 0 THEN RemoveItem(m, product_id)
    ELSE LET i == FirstItem(m.items, product_id)
         IN IF i # 0
            THEN LET after == [m EXCEPT !.items[i].quantity = quantity]
                 IN [manager |-> after,
                     result  |-> [success |-> TRUE, item |-> ToDict(after.items[i]),
                                  basket_total |-> ManagerTotal(after),
                                  item_count |-> ManagerItemCount(after)]]
            ELSE [manager |-> m, result |-> NotFoundResult(product_id)]

BasketCleared == <<"B", "a", "s", "k", "e", "t", " ", "c", "l", "e", "a", "r", "e", "d">>

\* BasketManager.clear
Clear(m) ==
    [manager |-> [items |-> <<>>, discount_code |-> None, discount_amount |-> 0],
     result  |-> [success |-> TRUE, message |-> BasketCleared]]

\* The quantities update_quantity is called with: negative, zero, positive.
UpdateQuantities == {0 - 1, 0} \cup (1..MaxQty)

\* The amounts BasketManager.apply_discount is called with: nothing checks
\* them, a negative one included.
ManagerAmounts == DiscountAmounts \cup {0 - 1}

\* The calls of the manager change nothing of the host.
HostUnchanged ==
    UNCHANGED <<stackVars, exitVars, cliVars, heap, hosts, hostVars, contextVars,
                conversation_history, chatVars, phase, cfg_idx, registered, last_call>>

\* add_item, with a quantity of 1 at least; the quantity of an item stays
\* within MaxQty.
BasketAddItem ==
    /\ \E product_id \in ProductIds, name \in ProductNames, price \in Prices,
          quantity \in 1..MaxQty :
          LET call == AddItem(manager, product_id, name, price, quantity)
          IN /\ \A i \in 1..Len(call.manager.items) :
                   call.manager.items[i].quantity <= MaxQty
             /\ manager' = call.manager
             /\ ev' = [op |-> "add_item", product_id |-> product_id,
                       quantity |-> quantity, result |-> call.result]
    /\ HostUnchanged

BasketRemoveItem ==
    /\ \E product_id \in ProductIds :
          LET call == RemoveItem(manager, product_id)
          IN /\ manager' = call.manager
             /\ ev' = [op |-> "remove_item", product_id |-> product_id,
                       result |-> call.result]
    /\ HostUnchanged

BasketUpdateQuantity ==
    /\ \E product_id \in ProductIds, quantity \in UpdateQuantities :
          LET call == UpdateQuantity(manager, product_id, quantity)
          IN /\ manager' = call.manager
             /\ ev' = [op |-> "update_quantity", product_id |-> product_id,
                       quantity |-> quantity, result |-> call.result]
    /\ HostUnchanged

BasketClear ==
    /\ manager' = Clear(manager).manager
    /\ ev' = [op |-> "clear", result |-> Clear(manager).result]
    /\ HostUnchanged

\* BasketManager.apply_discount(code, amount)
BasketApplyDiscount ==
    /\ \E code \in DiscountCodes, amount \in ManagerAmounts :
          manager' = [manager EXCEPT !.discount_code = Some(code),
                                     !.discount_amount = amount]
    /\ ev' = [op |-> "manager_apply_discount"]
    /\ HostUnchanged

\* A new session and a new manager.
InitBasket ==
    /\ InitSession
    /\ conversation_history = <<>>

\* The basket fields of a new SessionState.
NewSessionBasket == basket = <<>> /\ discount_code = None /\ discount_amount = 0

\* No method of one basket reads or writes the other, so the calls on one do
\* what they do whatever state the other is in: the calls on the session's
\* basket are made while the manager is as new, those on the manager while the
\* session's basket is.
NextBasket ==
    \/ manager = NewBasketManager /\ AddToBasket
    \/ manager = NewBasketManager /\ RemoveFromBasket
    \/ manager = NewBasketManager /\ ClearBasket
    \/ manager = NewBasketManager /\ ApplyDiscount
    \/ manager = NewBasketManager /\ ResetSession
    \/ NewSessionBasket /\ BasketAddItem
    \/ NewSessionBasket /\ BasketRemoveItem
    \/ NewSessionBasket /\ BasketUpdateQuantity
    \/ NewSessionBasket /\ BasketClear
    \/ NewSessionBasket /\ BasketApplyDiscount

SpecBasket == InitBasket /\ [][NextBasket]_vars

----------------------------------------------------------------------------
\* The session context changing under a running turn. host.state is a public
\* attribute and chat is a coroutine: it is suspended at `await
\* self.call_tool(...)`, inside the loop over the blocks, and between two
\* turns, and whoever holds the host can then call add_to_basket or assign
\* user_location.

\* add_to_basket(product_id, name, price, quantity) on items.
WithItem(items, product_id, name, price, quantity) ==
    LET i == FirstItem(items, product_id)
    IN IF i # 0 THEN [items EXCEPT ![i].quantity = @ + quantity]
       ELSE Append(items, [product_id |-> product_id, name |-> name,
                           price |-> price, quantity |-> quantity])

UpdateContext ==
    /\ phase = "ready"
    /\ pc \in {"idle", "for_blocks"}
    /\ \/ /\ \E l \in Locations : user_location' = Some(l)
          /\ user_location = None
          /\ UNCHANGED basket
       \/ /\ ItemCount(basket) < MaxQty
          /\ basket' = WithItem(basket, <<"p">>, <<"n">>, 2, 1)
          /\ UNCHANGED user_location
    /\ ev' = [op |-> "update_context"]
    /\ UNCHANGED <<mainVars, hostVars, discount_code, discount_amount, conversation_history,
                   user_preferences, current_order_id, chatVars, phase, cfg_idx,
                   registered, last_call>>

\* A session of a host with one server, b, that lists the tool t.
InitContext ==
    /\ InitChat
    /\ Len(server_configs) = 1

NextContext ==
    \/ ChatBegin \/ ModelRespond \/ ModelFail \/ LoopEnter \/ SkipBlock
    \/ DispatchBlock \/ LoopAppendResults \/ ChatReturn \/ UpdateContext

SpecContext == InitContext /\ [][NextContext]_vars

----------------------------------------------------------------------------
\* The tool-use loop over several rounds. chat has no counter: the only bound
\* on the rounds of a turn here is the one on what the model asks for.

\* The responses of this specification: a text followed by a tool call, or a
\* text alone, under each stop reason.
LoopContents ==
    {<<TextBlock(<<"h">>), ToolUseBlock(<<"1">>, <<"b", "_", "_", "t">>, <<"A">>)>>,
     <<TextBlock(<<"h">>)>>}
LoopResponses == {r \in Responses : r.content \in LoopContents}

\* messages.create returns a response; the model asks for tools in MaxRounds
\* responses of a turn at most.
ModelRespondLoop ==
    /\ pc = "call_model"
    /\ \E r \in LoopResponses :
          /\ r.stop_reason = "tool_use" => turn.rounds < MaxRounds
          /\ response' = r
          /\ turn' = [turn EXCEPT
                        !.model_calls = @ + 1,
                        !.first = IF turn.model_calls = 0 THEN Some(r) ELSE @,
                        !.len_at_response = Len(conversation_history)]
    /\ pc' = "got_response"
    /\ ev' = [op |-> "model", tools |-> tools]
    /\ UNCHANGED <<mainVars, hostVars, contextVars, conversation_history, phase, cfg_idx,
                   system_prompt, tool_results, block_idx, registered, last_call>>

\* A session of a host with one server, b, that lists the tool t.
InitLoop ==
    /\ InitChat
    /\ Len(server_configs) = 1

\* The steps of chat itself, from one model invocation to the next or to the
\* return.
ChatSteps ==
    LoopEnter \/ SkipBlock \/ DispatchBlock \/ LoopAppendResults \/ ChatReturn

NextLoop == ChatBegin \/ ModelRespondLoop \/ ChatSteps

\* chat is one coroutine that runs on whenever it can, and the model answers
\* every invocation.
SpecLoop ==
    /\ InitLoop
    /\ [][NextLoop]_vars
    /\ WF_vars(ChatSteps)
    /\ WF_vars(ModelRespondLoop)

\* The same turns on a session whose basket and location a collaborator
\* changes, between two turns or while chat is suspended in call_tool.
NextLoopContext == NextLoop \/ UpdateContext

SpecLoopContext == InitLoop /\ [][NextLoopContext]_vars

----------------------------------------------------------------------------
\* main(): the input loop, its exits, and cleanup.

\* str.strip(): the whitespace at both ends is removed.
Whitespace == {" ", "\t"}

RECURSIVE LStrip(_)
LStrip(s) == IF s # <<>> /\ s[1] \in Whitespace THEN LStrip(Tail(s)) ELSE s

RECURSIVE RStrip(_)
RStrip(s) ==
    IF s # <<>> /\ s[Len(s)] \in Whitespace
    THEN RStrip(SubSeq(s, 1, Len(s) - 1))
    ELSE s

Strip(s) == RStrip(LStrip(s))

\* Mutant of Lower: the letters are left as they are.
SameCase(s) == s

\* str.lower(), on the capital letters the lines of the model are written with.
Capitals == <<"Q", "U", "I", "T", "E", "X", "R", "S">>
Smalls   == <<"q", "u", "i", "t", "e", "x", "r", "s">>

RECURSIVE Lower(_)
Lower(s) ==
    IF s = <<>> THEN <<>>
    ELSE LET hits == {i \in 1..Len(Capitals) : Capitals[i] = s[1]}
         IN <<IF hits = {} THEN s[1] ELSE Smalls[CHOOSE i \in hits : TRUE]>>
            \o Lower(Tail(s))

\* The command words of main.
QuitWords == {<<"q", "u", "i", "t">>, <<"e", "x", "i", "t">>, <<"q">>}
ResetWord == <<"r", "e", "s", "e", "t">>

\* The lines the user types.
Lines ==
    {<<>>, <<" ">>,
     <<"q">>, <<"Q", " ">>, <<"q", "u", "i", "t">>, <<" ", "E", "x", "i", "t">>,
     <<"r", "e", "s", "e", "t">>, <<"\t", "R", "E", "S", "E", "T", " ">>,
     <<" ", "Q", "u", " ">>}

\* main is at input(): no turn is running, the exception of a failed turn is
\* not on its way out, and the answer of a returned turn has been printed.
AtPrompt ==
    /\ phase = "ready"
    /\ pc = "idle"
    /\ turn.status # "raised"
    /\ turn.status = "returned" => printed # None

RECURSIVE Reverse(_)
Reverse(s) == IF s = <<>> THEN <<>> ELSE Reverse(Tail(s)) \o <<s[1]>>

\* Mutant of AClose: only the client sessions are exited, the transports stay
\* open.
RECURSIVE ACloseSessions(_)
ACloseSessions(stack) ==
    IF stack = <<>> THEN <<>>
    ELSE ACloseSessions(Tail(stack))
         \o (IF stack[1].kind = "ClientSession" THEN <<stack[1]>> ELSE <<>>)

\* AsyncExitStack.aclose(): every context on the stack is exited, the last
\* entered first. The value is the sequence of the contexts exited.
AClose(stack) == Reverse(stack)

\* cleanup(), which main() awaits in its finally clause.
Cleanup ==
    /\ released' = released \o AClose(exit_stack)
    /\ exit_stack' = <<>>
    /\ cleanups' = cleanups + 1

\* input() returns a line that is empty once stripped: continue.
InputIgnored ==
    /\ AtPrompt
    /\ \E raw \in Lines :
          /\ Strip(raw) = <<>>
          /\ line' = Some(raw)
          /\ user_input' = Some(Strip(raw))
    /\ ev' = [op |-> "input", branch |-> "ignored"]
    /\ UNCHANGED <<worldVars, stackVars, exitVars, printed, hostVars, contextVars,
                   conversation_history, chatVars, phase, cfg_idx, registered,
                   last_call>>

\* input() returns quit, exit or q: break, and the finally clause runs cleanup.
InputQuit ==
    /\ AtPrompt
    /\ \E raw \in Lines :
          /\ Strip(raw) # <<>>
          /\ Lower(Strip(raw)) \in QuitWords
          /\ line' = Some(raw)
          /\ user_input' = Some(Strip(raw))
    /\ Cleanup
    /\ phase' = "exited"
    /\ ev' = [op |-> "input", branch |-> "quit"]
    /\ UNCHANGED <<worldVars, opened, printed, server_configs, sessions, tools, tool_to_server,
                   contextVars, conversation_history, chatVars, cfg_idx, registered,
                   last_call>>

\* input() returns reset: host.reset_session(), continue.
InputReset ==
    /\ AtPrompt
    /\ \E raw \in Lines :
          /\ Strip(raw) # <<>>
          /\ Lower(Strip(raw)) \notin QuitWords
          /\ Lower(Strip(raw)) = ResetWord
          /\ line' = Some(raw)
          /\ user_input' = Some(Strip(raw))
    /\ Reset
    /\ turn' = NoTurn
    /\ ev' = [op |-> "input", branch |-> "reset"]
    /\ UNCHANGED <<worldVars, stackVars, exitVars, printed, hostVars, phase, cfg_idx, pc,
                   system_prompt, response, tool_results, block_idx, registered,
                   last_call>>

\* input() returns anything else: host.chat(user_input) is called, and runs up
\* to its first messages.create.
InputForward ==
    /\ AtPrompt
    /\ Len(conversation_history) + 2 <= MaxHist
    /\ \E raw \in Lines :
          /\ Strip(raw) # <<>>
          /\ Lower(Strip(raw)) \notin QuitWords
          /\ Lower(Strip(raw)) # ResetWord
          /\ line' = Some(raw)
          /\ user_input' = Some(Strip(raw))
          /\ BeginTurn(Strip(raw))
    /\ printed' = None
    /\ ev' = [op |-> "input", branch |-> "chat"]
    /\ UNCHANGED <<worldVars, stackVars, exitVars, hostVars, contextVars, phase, cfg_idx,
                   response, tool_results, block_idx, registered, last_call>>

\* input() raises EOFError: break, and the finally clause runs cleanup.
InputEOF ==
    /\ AtPrompt
    /\ Cleanup
    /\ phase' = "exited"
    /\ ev' = [op |-> "eof"]
    /\ UNCHANGED <<worldVars, opened, cliVars, server_configs, sessions, tools, tool_to_server,
                   contextVars, conversation_history, chatVars, cfg_idx, registered,
                   last_call>>

\* host.chat has returned: main prints the answer and goes back to input().
PrintAnswer ==
    /\ phase = "ready"
    /\ pc = "idle"
    /\ turn.status = "returned"
    /\ printed = None
    /\ printed' = Some(turn.answer)
    /\ ev' = [op |-> "print"]
    /\ UNCHANGED <<worldVars, stackVars, exitVars, line, user_input, hostVars, contextVars,
                   conversation_history, chatVars, phase, cfg_idx, registered,
                   last_call>>

\* host.chat has raised (a model invocation failed): neither handler of the
\* input loop catches it, it leaves main through the finally clause.
TurnFailed ==
    /\ phase = "ready"
    /\ pc = "idle"
    /\ turn.status = "raised"
    /\ Cleanup
    /\ phase' = "exited"
    /\ ev' = [op |-> "turn_failed"]
    /\ UNCHANGED <<worldVars, opened, cliVars, server_configs, sessions, tools, tool_to_server,
                   contextVars, conversation_history, chatVars, cfg_idx, registered,
                   last_call>>

\* The user interrupts (KeyboardInterrupt, or the cancellation of the main task
\* asyncio.run turns it into), wherever main is. During startup and inside
\* host.chat nothing catches it (call_tool and connect_all_servers catch
\* Exception only): the call is abandoned where it is. The handler of the input
\* loop breaks, or the exception leaves main; either way through the finally
\* clause.
Interrupt ==
    /\ phase \in {"startup", "ready"}
    /\ turn.status # "raised"
    /\ Cleanup
    /\ phase' = "exited"
    /\ pc' = "idle"
    /\ ClearLocals
    /\ turn' = IF pc # "idle" THEN [turn EXCEPT !.status = "interrupted"] ELSE turn
    /\ ev' = [op |-> "interrupt",
              at |-> IF phase = "startup" THEN "startup"
                     ELSE IF pc = "idle" THEN "prompt" ELSE pc]
    /\ UNCHANGED <<worldVars, opened, cliVars, server_configs, sessions, tools, tool_to_server,
                   contextVars, conversation_history, cfg_idx, registered, last_call>>

\* main() from the creation of the host to its exit, with servers that have a
\* name. The turns of this specification are the ones whose first model
\* invocation fails; the turns that go on are those of SpecCli.
InitMain ==
    /\ InitRegistry
    /\ \A i \in 1..Len(server_configs) : server_configs[i].name # <<>>

NextMain ==
    \/ SkipDisabled \/ ConnectOk \/ ConnectFail \/ StartupDone
    \/ InputQuit \/ InputEOF \/ InputForward \/ ModelFail \/ TurnFailed
    \/ Interrupt

SpecMain == InitMain /\ [][NextMain]_vars

\* The input loop of main() once startup is over, on a host with the server b.
InitCli ==
    /\ InitChat
    /\ Len(server_configs) = 1

NextCli ==
    \/ InputIgnored \/ InputQuit \/ InputReset \/ InputForward \/ InputEOF
    \/ ModelRespond \/ ModelFail \/ LoopEnter \/ SkipBlock \/ DispatchBlock
    \/ LoopAppendResults \/ ChatReturn \/ PrintAnswer \/ TurnFailed \/ Interrupt

SpecCli == InitCli /\ [][NextCli]_vars

----------------------------------------------------------------------------
\* Two MCPHost instances in one process, by reference. Lists, dicts and the
\* SessionState are objects in cells of a heap; an attribute that holds one
\* holds its cell. list.append and dict[key] = value change the object in its
\* cell; an assignment of [] or {} to an attribute puts a new object in a free
\* cell and makes the attribute refer to it.

ObjectsPerHost == 7     \* sessions, tools, tool_to_server, state and its three
MaxObjects     == 2 * ObjectsPerHost + 3    \* and the three a reset creates
Cells          == 1..MaxObjects

Free      == [kind |-> "free"]
EmptyHeap == [o \in Cells |-> Free]

FreeCell(h) ==
    CHOOSE o \in Cells : h[o] = Free /\ \A p \in Cells : h[p] = Free => o <= p

\* A new object: the heap with it, and its cell.
New(h, kind, val) ==
    LET o == FreeCell(h)
    IN [heap |-> [h EXCEPT ![o] = [kind |-> kind, val |-> val]], ref |-> o]

\* Mutant of NewSessionState: conversation_history is a class attribute, one
\* list that every SessionState refers to.
NewSessionStateSharedHistory(h) ==
    LET b == New(h, "list", <<>>)
        c == IF b.heap[MaxObjects] = Free
             THEN [heap |-> [b.heap EXCEPT ![MaxObjects] = [kind |-> "list", val |-> <<>>]],
                   ref |-> MaxObjects]
             ELSE [heap |-> b.heap, ref |-> MaxObjects]
        p == New(c.heap, "dict", <<>>)
    IN New(p.heap, "SessionState",
           [basket |-> b.ref, discount_code |-> None, discount_amount |-> 0,
            conversation_history |-> c.ref, user_location |-> None,
            user_preferences |-> p.ref, current_order_id |-> None])

\* SessionState(): the dataclass runs the default_factory of basket,
\* conversation_history and user_preferences for the new instance.
NewSessionState(h) ==
    LET b == New(h, "list", <<>>)
        c == New(b.heap, "list", <<>>)
        p == New(c.heap, "dict", <<>>)
    IN New(p.heap, "SessionState",
           [basket |-> b.ref, discount_code |-> None, discount_amount |-> 0,
            conversation_history |-> c.ref, user_location |-> None,
            user_preferences |-> p.ref, current_order_id |-> None])

\* MCPHost.__init__: a dict, a list, a dict and a SessionState of its own.
NewHost(h) ==
    LET se == New(h, "dict", <<>>)
        t  == New(se.heap, "list", <<>>)
        r  == New(t.heap, "dict", <<>>)
        st == NewSessionState(r.heap)
    IN [heap |-> st.heap,
        host |-> [sessions |-> se.ref, tools |-> t.ref, tool_to_server |-> r.ref,
                  state |-> st.ref]]

\* The cells a host reaches through its attributes.
Objects(h, host) ==
    {host.sessions, host.tools, host.tool_to_server, host.state,
     h[host.state].val.basket, h[host.state].val.conversation_history,
     h[host.state].val.user_preferences}

\* The objects no host reaches any more are collected.
Collect(h, hs) ==
    [o \in Cells |->
        IF \E i \in 1..Len(hs) : o \in Objects(h, hs[i]) THEN h[o] ELSE Free]

\* What a host holds, by value: its session and its registry.
View(h, host) ==
    LET st == h[host.state].val
    IN [conversation_history |-> h[st.conversation_history].val,
        basket               |-> h[st.basket].val,
        discount_code        |-> st.discount_code,
        discount_amount      |-> st.discount_amount,
        user_location        |-> st.user_location,
        user_preferences     |-> h[st.user_preferences].val,
        current_order_id     |-> st.current_order_id,
        sessions             |-> h[host.sessions].val,
        tools                |-> h[host.tools].val,
        tool_to_server       |-> h[host.tool_to_server].val]

\* The variables of the one host by value stay as they are.
byValueVars ==
    <<stackVars, exitVars, cliVars, hostVars, contextVars, conversation_history,
      chatVars, phase, cfg_idx, registered, last_call, manager>>

\* Two hosts have been created, one after the other.
InitTwoHosts ==
    /\ LET first  == NewHost(EmptyHeap)
           second == NewHost(first.heap)
       IN /\ heap = second.heap
          /\ hosts = <<first.host, second.host>>
    /\ server_configs = <<>>
    /\ sessions = <<>>
    /\ tools = <<>>
    /\ tool_to_server = <<>>
    /\ registered = <<>>
    /\ exit_stack = <<>>
    /\ opened = <<>>
    /\ MainStart
    /\ manager = NewBasketManager
    /\ FreshSession
    /\ IdleChat
    /\ cfg_idx = 1
    /\ phase = "ready"
    /\ ev = [op |-> "ready"]
    /\ last_call = NoCall

\* connect_to_server("b", ...) on host i: the session is stored and the
\* listed tools are registered, in the host's own tables.
HostConnect(i) ==
    /\ heap[hosts[i].sessions].val = <<>>
    /\ \E listing \in SeqsUpTo({ChatTool}, MaxTools) :
          LET reg == RegisterTools([tools |-> heap[hosts[i].tools].val,
                                    tool_to_server |-> heap[hosts[i].tool_to_server].val],
                                   <<"b">>, listing)
          IN heap' = [heap EXCEPT
                        ![hosts[i].sessions].val = Put(@, <<"b">>, i),
                        ![hosts[i].tools].val = reg.tools,
                        ![hosts[i].tool_to_server].val = reg.tool_to_server]
    /\ ev' = [op |-> "host_connect", host |-> i]
    /\ UNCHANGED <<hosts, byValueVars>>

\* chat(user_message) on host i, answered by the first response: the user
\* message and the assistant message are appended to the history list.
HostChat(i) ==
    /\ Len(heap[heap[hosts[i].state].val.conversation_history].val) + 2 <= MaxHist
    /\ \E user_message \in UserMessages :
          heap' = [heap EXCEPT
                     ![heap[hosts[i].state].val.conversation_history].val =
                        AppendMessage(AppendMessage(@, UserMessage(user_message)),
                                      AssistantMessage(<<TextBlock(<<"h">>)>>))]
    /\ ev' = [op |-> "host_chat", host |-> i]
    /\ UNCHANGED <<hosts, byValueVars>>

\* state.add_to_basket(...) on host i: the basket list is changed in place.
HostAddToBasket(i) ==
    /\ ItemCount(heap[heap[hosts[i].state].val.basket].val) < MaxQty
    /\ heap' = [heap EXCEPT
                  ![heap[hosts[i].state].val.basket].val =
                     WithItem(@, <<"p">>, <<"n">>, 2, 1)]
    /\ ev' = [op |-> "host_add_to_basket", host |-> i]
    /\ UNCHANGED <<hosts, byValueVars>>

\* reset_session() on host i: state.reset() assigns a new list to basket and
\* to conversation_history, a new dict to user_preferences, and the defaults
\* to the other fields; the objects they held are collected.
HostReset(i) ==
    /\ LET b == New(heap, "list", <<>>)
           c == New(b.heap, "list", <<>>)
           p == New(c.heap, "dict", <<>>)
       IN heap' = Collect([p.heap EXCEPT
                              ![hosts[i].state].val =
                                 [basket |-> b.ref, discount_code |-> None,
                                  discount_amount |-> 0,
                                  conversation_history |-> c.ref,
                                  user_location |-> None,
                                  user_preferences |-> p.ref,
                                  current_order_id |-> None]],
                          hosts)
    /\ ev' = [op |-> "host_reset", host |-> i]
    /\ UNCHANGED <<hosts, byValueVars>>

NextTwoHosts ==
    \E i \in 1..2 :
        HostConnect(i) \/ HostChat(i) \/ HostAddToBasket(i) \/ HostReset(i)

SpecTwoHosts == InitTwoHosts /\ [][NextTwoHosts]_vars

----------------------------------------------------------------------------
\* Reading a result back: the message msg when text is the JSON object
\* {"error": msg} as json.dumps writes it, None when text is no such object.
ErrorHead == <<"{", "\"", "e", "r", "r", "o", "r", "\"", ":", " ", "\"">>
ErrorTail == <<"\"", "}">>

RECURSIVE JsonUnescape(_)
JsonUnescape(s) ==
    IF s = <<>> THEN Some(<<>>)
    ELSE IF s[1] = "\""
    THEN None
    ELSE IF s[1] = "\\"
    THEN IF Len(s) < 2 \/ ~(s[2] \in {"\"", "\\"})
         THEN None
         ELSE LET rest == JsonUnescape(SubSeq(s, 3, Len(s)))
              IN IF rest = None THEN None ELSE Some(<<s[2]>> \o rest[1])
    ELSE LET rest == JsonUnescape(Tail(s))
         IN IF rest = None THEN None ELSE Some(<<s[1]>> \o rest[1])

ErrorMessageOf(text) ==
    LET n == Len(text)
        h == Len(ErrorHead)
        t == Len(ErrorTail)
    IN IF n < h + t
          \/ SubSeq(text, 1, h) # ErrorHead
          \/ SubSeq(text, n - t + 1, n) # ErrorTail
       THEN None
       ELSE JsonUnescape(SubSeq(text, h + 1, n - t))

\* The descriptor names in the list handed to the model.
DescriptorNames == {tools[i].name : i \in 1..Len(tools)}

\* The position of the last registration that produced qualified name q.
LastRegistration(q) ==
    CHOOSE i \in 1..Len(registered) :
        /\ registered[i][1] \o <<"_", "_">> \o registered[i][2] = q
        /\ \A j \in 1..Len(registered) :
              registered[j][1] \o <<"_", "_">> \o registered[j][2] = q => j <= i

C4_UnknownToolIsAnErrorResult ==
    (last_call.called /\ last_call.tool_name \notin DOMAIN tool_to_server) =>
        /\ ~last_call.raised
        /\ last_call.invoked = <<>>
        /\ ErrorMessageOf(last_call.value)
              = Some(<<"U", "n", "k", "n", "o", "w", "n", " ", "t", "o", "o", "l", ":", " ">>
                     \o last_call.tool_name)

\* C4 witness: with tools registered, a name without "__" that no server
\* registered has been called.
C4_Witness ==
    /\ last_call.called
    /\ tools # <<>>
    /\ last_call.tool_name \notin DOMAIN tool_to_server
    /\ FirstSep(last_call.tool_name) = 0

\* C5: call_tool never raises; when the name resolves and the server's
\* invocation fails, the result is the JSON object {"error": <message>}.
C5_CallToolNeverRaises ==
    last_call.called =>
        /\ ~last_call.raised
        /\ \A k \in 1..Len(last_call.invoked) :
              last_call.invoked[k].outcome.kind = "raise" =>
                 ErrorMessageOf(last_call.value) = Some(last_call.invoked[k].outcome.msg)

\* C5 witness: a registered tool was called and its server's invocation failed
\* with a message that json.dumps has to escape.
C5_Witness ==
    /\ last_call.called
    /\ last_call.invoked # <<>>
    /\ last_call.invoked[1].outcome.kind = "raise"
    /\ "\"" \in Range(last_call.invoked[1].outcome.msg)

\* The servers that registered at least one tool.
RegisteringServers == {registered[i][1] : i \in 1..Len(registered)}

\* C6: with tools of two or more servers registered, a call of a registered
\* qualified name invokes exactly one connection, that of a server that
\* registered the name, and no connection of another server.
C6_RoutesToOwningConnection ==
    (/\ last_call.called
     /\ Cardinality(RegisteringServers) >= 2
     /\ last_call.tool_name \in DOMAIN tool_to_server) =>
        /\ Len(last_call.invoked) = 1
        /\ \E i \in 1..Len(registered) :
              /\ registered[i][1] = last_call.invoked[1].server
              /\ registered[i][1] \o <<"_", "_">> \o registered[i][2] = last_call.tool_name
        /\ last_call.invoked[1].session = sessions[last_call.invoked[1].server]

\* C10: connecting a server whose tool listing is empty succeeds: the server is
\* recorded as connected, the descriptor list and the routing table are as they
\* were, and startup goes on.
C10_EmptyListingChangesNoTool ==
    [][(/\ phase = "startup"
        /\ cfg_idx' = cfg_idx + 1
        /\ ev'.op = "connect"
        /\ ev'.listing = <<>>) =>
          (/\ ev'.name \in DOMAIN sessions'
           /\ tools' = tools
           /\ tool_to_server' = tool_to_server
           /\ phase' = "startup")]_vars

\* C10 witness: a server with an empty listing was connected after a server
\* that registered tools, and startup is about to finish.
C10_Witness ==
    /\ ev.op = "connect"
    /\ ev.listing = <<>>
    /\ ev.name \in DOMAIN sessions
    /\ tools # <<>>
    /\ phase = "startup"
    /\ cfg_idx > Len(server_configs)
\* The tool_use blocks of a content, in block order.
RECURSIVE ToolCalls(_)
ToolCalls(content) ==
    IF content = <<>> THEN <<>>
    ELSE (IF content[1].type = "tool_use" THEN <<content[1]>> ELSE <<>>)
         \o ToolCalls(Tail(content))

\* Message m is a user-role tool-result message that answers calls one to one,
\* in order.
AnswersInOrder(m, calls) ==
    /\ m.role = "user"
    /\ "list" \in DOMAIN m.content
    /\ Len(m.content.list) = Len(calls)
    /\ \A i \in 1..Len(calls) :
          /\ m.content.list[i].type = "tool_result"
          /\ m.content.list[i].tool_use_id = calls[i].id

\* C1: when the model is invoked again after a tool_use response with N
\* tool-call blocks, chat has appended since that response the assistant
\* message and exactly one user-role message holding exactly N results, the
\* i-th with the id of the i-th tool-call block.
C1_OneResultPerRequestInOrder ==
    (pc = "call_model" /\ turn.rounds >= 1) =>
        LET n == Len(conversation_history)
        IN /\ response.stop_reason = "tool_use"
           /\ n = turn.len_at_response + 2
           /\ conversation_history[n - 1] =
                 [role |-> "assistant", content |-> [list |-> response.content]]
           /\ AnswersInOrder(conversation_history[n], ToolCalls(response.content))

\* C1 witness: a tool_use response with two tool-call blocks of different ids
\* has been answered and the model is about to be invoked again.
C1_Witness ==
    /\ pc = "call_model"
    /\ turn.rounds >= 1
    /\ Len(ToolCalls(response.content)) = 2
    /\ ToolCalls(response.content)[1].id # ToolCalls(response.content)[2].id
    /\ Len(conversation_history[Len(conversation_history)].content.list) = 2

\* C2: at every model invocation, the tool-call blocks of every assistant
\* message of the history are answered, one result each and in order, by the
\* user message that follows that assistant message.
C2_EveryRequestAnsweredBeforeModelCall ==
    pc = "call_model" =>
        \A j \in 1..Len(conversation_history) :
            (/\ conversation_history[j].role = "assistant"
             /\ ToolCalls(conversation_history[j].content.list) # <<>>) =>
                /\ j < Len(conversation_history)
                /\ AnswersInOrder(conversation_history[j + 1],
                                  ToolCalls(conversation_history[j].content.list))

\* C8: a turn answered without tool use leaves the history it started from,
\* then the user message, then the assistant message of the final response.
C8_UserThenAssistantAtTail ==
    (turn.status = "returned" /\ turn.rounds = 0) =>
        conversation_history =
            turn.start
            \o <<[role |-> "user", content |-> [str |-> turn.user]],
                 [role |-> "assistant", content |-> [list |-> turn.final[1].content]]>>

\* C8 witness: such a turn has returned on a history that was not empty.
C8_Witness ==
    /\ turn.status = "returned"
    /\ turn.rounds = 0
    /\ turn.start # <<>>

\* The concatenation of the texts of the text blocks among the first k blocks.
RECURSIVE TextUpTo(_, _)
TextUpTo(content, k) ==
    IF k = 0 THEN <<>>
    ELSE TextUpTo(content, k - 1)
         \o (IF content[k].type = "text" THEN content[k].text ELSE <<>>)

\* C9: when the first response of a turn has stop reason end_turn, chat
\* dispatches no tool, invokes the model once, and returns the texts of the
\* response's text blocks, concatenated in block order without separator.
C9_EndTurnAtOnce ==
    (turn.status = "returned" /\ turn.first[1].stop_reason = "end_turn") =>
        /\ turn.dispatches = 0
        /\ turn.model_calls = 1
        /\ turn.answer = TextUpTo(turn.first[1].content, Len(turn.first[1].content))

\* C9 witness: with a tool registered, a turn has returned whose first response
\* ended the turn with two different texts.
C9_Witness ==
    /\ turn.status = "returned"
    /\ turn.first[1].stop_reason = "end_turn"
    /\ tools # <<>>
    /\ Len(turn.first[1].content) = 2
    /\ turn.first[1].content[1].text # turn.first[1].content[2].text
\* C7: after reset(), whatever the session held, the history is empty and
\* every contextual field has the value it has in a new SessionState.
C7_ResetRestoresDefaults ==
    ev.op = "reset" =>
        /\ conversation_history = <<>>
        /\ basket = <<>>
        /\ discount_code = <<>>
        /\ discount_amount = 0
        /\ user_location = <<>>
        /\ DOMAIN user_preferences = {}
        /\ current_order_id = <<>>

\* C7 witness: reset() has run on a session in which the history and every
\* contextual field differed from their defaults.
C7_Witness ==
    /\ ev.op = "reset"
    /\ ev.cleared = {"basket", "discount_code", "discount_amount",
                     "conversation_history", "user_location", "user_preferences",
                     "current_order_id"}

\* C11: the system prompt passed to a model invocation, the first of a turn
\* or one made inside the tool-use loop, is the one built from the values
\* user_location, basket_item_count and basket_total have at that invocation.
C11_PromptBuiltAtEachInvocation ==
    pc = "call_model" =>
        system_prompt = BuildSystemPrompt(user_location, basket_item_count, basket_total)

\* C12: when a turn has failed because a model invocation failed, the first
\* of the turn or a later one, the session is the one the turn began with:
\* the history is the history before the turn. (chat assigns no other field.)
C12_FailedTurnLeavesSessionAsBefore ==
    ev.op = "model_failed" => conversation_history = turn.start

\* C13: a model invocation that fails is made once and its failure leaves
\* chat as an exception: the step appends no message (no tool result, no
\* answer), dispatches nothing, and ends the turn as raised; and a model
\* invocation or a tool dispatch is only ever made by a turn that is running,
\* so none follows in the failed turn.
C13_ModelFailurePropagates ==
    [][/\ ev'.op = "model_failed" =>
            /\ turn.status = "running"
            /\ turn'.status = "raised"
            /\ pc' = "idle"
            /\ turn'.model_calls = turn.model_calls + 1
            /\ turn'.dispatches = turn.dispatches
            /\ turn'.answer = <<>>
            /\ conversation_history' = conversation_history
            /\ last_call' = last_call
       /\ ev'.op \in {"model", "model_failed", "dispatch"} =>
            turn.status = "running"]_vars

\* C13 witness: the model invocation that follows a round of the tool-use
\* loop with a dispatch has failed.
C13_Witness ==
    /\ ev.op = "model_failed"
    /\ turn.status = "raised"
    /\ turn.rounds >= 1
    /\ turn.dispatches >= 1
    /\ turn.model_calls = turn.rounds + 1

\* A call of call_tool that failed: no server was asked (unknown tool), or the
\* server's invocation raised.
FailedCall(call) ==
    /\ call.called
    /\ \/ call.invoked = <<>>
       \/ call.invoked[1].outcome.kind = "raise"

\* C14: a tool call that fails does not end the turn. The dispatch step
\* records the error payload as the result of that block, under the block's
\* id, and moves on to the next block; and the loop over the blocks is only
\* left for the next model invocation, with one result per tool-call block
\* appended to the history.
C14_ToolFailureDoesNotAbortTurn ==
    [][/\ (ev'.op = "dispatch" /\ FailedCall(last_call')) =>
            /\ turn'.status = "running"
            /\ pc' = "for_blocks"
            /\ block_idx' = block_idx + 1
            /\ ErrorMessageOf(last_call'.value) # None
            /\ tool_results' =
                  Append(tool_results,
                         [type |-> "tool_result",
                          tool_use_id |-> response.content[block_idx].id,
                          content |-> last_call'.value])
       /\ (pc = "for_blocks" /\ pc' # "for_blocks") =>
            /\ pc' = "call_model"
            /\ turn'.status = "running"
            /\ block_idx > Len(response.content)
            /\ Len(tool_results) = Len(ToolCalls(response.content))
            /\ conversation_history' =
                  Append(conversation_history,
                         [role |-> "user", content |-> [list |-> tool_results]])]_vars

\* C14 witness: the model is about to be invoked again after a response with
\* two tool calls, the first of which failed and the second of which did not.
C14_Witness ==
    /\ pc = "call_model"
    /\ turn.rounds >= 1
    /\ Len(ToolCalls(response.content)) = 2
    /\ LET results == conversation_history[Len(conversation_history)].content.list
       IN /\ Len(results) = 2
          /\ ErrorMessageOf(results[1].content) # None
          /\ ErrorMessageOf(results[2].content) = None

\* C15: once main() has exited, by whichever path (quit, end of input,
\* interrupt, failed turn; after a startup in which any server may have failed
\* at any stage), cleanup has run exactly once and every context opened
\* during startup, transport or session, has been released, once each; and
\* before the exit cleanup has not run.
C15_EveryExitReleasesOnce ==
    /\ phase = "exited" =>
          /\ cleanups = 1
          /\ exit_stack = <<>>
          /\ Len(released) = Len(opened)
          /\ Range(released) = Range(opened)
    /\ phase # "exited" =>
          /\ cleanups = 0
          /\ released = <<>>

\* C15 witness: main() has exited through a failed turn after a startup of
\* two servers, one connected and one that failed with its transport open.
C15_Witness ==
    /\ phase = "exited"
    /\ ev.op = "turn_failed"
    /\ Len(server_configs) = 2
    /\ Cardinality(DOMAIN sessions) = 1
    /\ Len(released) = 3

\* C16: a connection that fails, at whatever stage, does not end startup:
\* the step leaves the descriptors, the routes and the earlier connections as
\* they were and moves connect_all_servers to the next server; while startup
\* is at an enabled server the step taken is a connection attempt to that
\* server; and startup is over only when every configured server has been
\* passed.
C16_FailedConnectionIsSkipped ==
    [][/\ ev'.op = "connect_failed" =>
            /\ tools' = tools
            /\ tool_to_server' = tool_to_server
            /\ registered' = registered
            /\ \A n \in DOMAIN sessions :
                  n \in DOMAIN sessions' /\ sessions'[n] = sessions[n]
            /\ phase' = "startup"
            /\ cfg_idx' = cfg_idx + 1
       /\ (/\ phase = "startup"
           /\ cfg_idx <= Len(server_configs)
           /\ server_configs[cfg_idx].enabled) =>
            /\ ev'.op \in {"connect", "connect_failed"}
            /\ ev'.name = server_configs[cfg_idx].name
            /\ cfg_idx' = cfg_idx + 1
       /\ (phase = "startup" /\ phase' = "ready") =>
            cfg_idx > Len(server_configs)]_vars

\* C16 witness: the first of two servers failed after its transport was
\* opened, and the second has been connected and has registered a tool.
C16_Witness ==
    /\ phase = "startup"
    /\ ev.op = "connect"
    /\ cfg_idx = 3
    /\ tools # <<>>
    /\ Len(opened) = 3
    /\ opened[1].server = server_configs[1].name
    /\ server_configs[1].name \notin DOMAIN sessions

\* C17: the tool calls of a response are made one at a time in block order.
\* A dispatch is made for the tool-call block the loop is at, when the result
\* of every earlier tool-call block of the response is already in
\* tool_results, and its own result is appended before the loop moves on;
\* and a model invocation that follows a tool_use response is made when the
\* loop is past the last block, with one result per tool-call block.
C17_DispatchesAreSequential ==
    [][/\ ev'.op = "dispatch" =>
            /\ pc = "for_blocks"
            /\ block_idx \in 1..Len(response.content)
            /\ response.content[block_idx].type = "tool_use"
            /\ last_call'.tool_name = response.content[block_idx].name
            /\ Len(last_call'.invoked) <= 1
            /\ turn'.dispatches = turn.dispatches + 1
            /\ Len(tool_results) =
                  Len(ToolCalls(SubSeq(response.content, 1, block_idx - 1)))
            /\ tool_results' =
                  Append(tool_results,
                         [type |-> "tool_result",
                          tool_use_id |-> response.content[block_idx].id,
                          content |-> last_call'.value])
            /\ block_idx' = block_idx + 1
       /\ (ev'.op \in {"model", "model_failed"} /\ turn.rounds >= 1) =>
            /\ block_idx > Len(response.content)
            /\ Len(tool_results) = Len(ToolCalls(response.content))
       /\ ev'.op # "dispatch" => turn'.dispatches = turn.dispatches
                                 \/ turn'.dispatches = 0]_vars

\* C17 witness: the second of two tool calls of a response has been
\* dispatched, after the first, and the loop is past the last block.
C17_Witness ==
    /\ ev.op = "dispatch"
    /\ pc = "for_blocks"
    /\ Len(ToolCalls(response.content)) = 2
    /\ block_idx = 3
    /\ Len(tool_results) = 2
    /\ tool_results[1].tool_use_id = response.content[1].id
    /\ tool_results[2].tool_use_id = response.content[2].id
    /\ tool_results[1].tool_use_id # tool_results[2].tool_use_id

\* The lines of the model by what the input loop is to do with them.
BlankLines == {<<>>, <<" ">>}
QuitLines  == {<<"q">>, <<"Q", " ">>, <<"q", "u", "i", "t">>, <<" ", "E", "x", "i", "t">>}
ResetLines == {<<"r", "e", "s", "e", "t">>, <<"\t", "R", "E", "S", "E", "T", " ">>}

\* C18: what the input loop does with the line it has read. quit, exit and q,
\* in any letter case, end the loop and start no turn; reset puts the session
\* back to its defaults, invokes no model, and the loop goes on; a blank line
\* changes nothing; any other line starts exactly one turn of chat on the
\* stripped line. And a line is read after a returned turn only when the
\* answer of that turn has been printed.
C18_InputLoopCommands ==
    [][ev'.op = "input" =>
          LET raw == line'[1]
          IN /\ raw \in QuitLines =>
                   /\ phase' = "exited"
                   /\ pc' = "idle"
                   /\ turn' = turn
                   /\ conversation_history' = conversation_history
             /\ raw \in ResetLines =>
                   /\ phase' = "ready"
                   /\ pc' = "idle"
                   /\ FreshSession'
                   /\ turn'.status = "none"
                   /\ turn'.model_calls = 0
             /\ raw \in BlankLines =>
                   /\ phase' = "ready"
                   /\ pc' = "idle"
                   /\ turn' = turn
                   /\ conversation_history' = conversation_history
                   /\ contextVars' = contextVars
             /\ raw \notin QuitLines \cup ResetLines \cup BlankLines =>
                   /\ phase' = "ready"
                   /\ pc' = "call_model"
                   /\ turn'.status = "running"
                   /\ turn'.user = Strip(raw)
                   /\ turn'.model_calls = 0
                   /\ conversation_history' =
                         Append(conversation_history,
                                [role |-> "user", content |-> [str |-> Strip(raw)]])
             /\ turn.status = "returned" => printed = Some(turn.answer)]_vars

\* C18 witness: a line was forwarded as a turn, the turn has returned a text
\* and main has printed it, and the line read next, a capital Q with a blank
\* after it, has ended the loop.
C18_Witness ==
    /\ ev.op = "input"
    /\ line = Some(<<"Q", " ">>)
    /\ phase = "exited"
    /\ turn.status = "returned"
    /\ turn.user = <<"Q", "u">>
    /\ turn.answer # <<>>
    /\ printed = Some(turn.answer)

\* C19: an interrupt ends the input loop between two turns only: when it has
\* ended main, no turn was running, and the history does not end with a
\* message a turn had still to answer (a user message, an assistant
\* tool-call message awaiting its results, or a tool-result message).
C19_InterruptOnlyBetweenTurns ==
    ev.op = "interrupt" =>
        /\ ev.at \in {"startup", "prompt"}
        /\ turn.status # "interrupted"
        /\ conversation_history # <<>> =>
              conversation_history[Len(conversation_history)].role = "assistant"

\* The first "__" of name + "__" + local is the separator put in by the host:
\* name holds no "__" and does not end with "_".
PlainServerName(name) == FirstSep(name \o Sep) = Len(name) + 1

DistinctListings ==
    \A i, j \in 1..Len(registered) : i # j => registered[i] # registered[j]

\* The qualified names of the descriptor list handed to the model are
\* pairwise distinct.
DistinctQualifiedNames ==
    \A i, j \in 1..Len(tools) : i # j => tools[i].name # tools[j].name

\* C21 as stated: when the connected servers have pairwise distinct names and
\* each lists pairwise distinct local names, the qualified names of the
\* descriptor list are pairwise distinct.
C21_PrefixMakesNamesDistinct ==
    DistinctListings => DistinctQualifiedNames

\* C21 amended: the same when, in addition, no server name holds "__" or ends
\* with "_".
C21_PlainPrefixMakesNamesDistinct ==
    (/\ DistinctListings
     /\ \A i \in 1..Len(registered) : PlainServerName(registered[i][1])) =>
        DistinctQualifiedNames

\* C21 witness: startup is over, two servers with plain names have each
\* listed the same two local names, and the list holds four descriptors.
C21_Witness ==
    /\ phase = "ready"
    /\ DistinctListings
    /\ Len(registered) = 4
    /\ Len(tools) = 4
    /\ \A i \in 1..4 : PlainServerName(registered[i][1])
    /\ registered[1][2] = registered[3][2]
    /\ registered[1][1] # registered[3][1]

\* C22: a turn returns exactly at a response whose stop reason is not
\* tool_use. After a tool_use response chat enters the loop and the turn goes
\* on, however many rounds it has made already; after any other response chat
\* returns; a returned turn has made one round for each response before its
\* last one; and when the model stops asking for tools the turn returns.
C22_ReturnsAtFirstOtherStopReason ==
    /\ [][/\ (pc = "got_response" /\ response.stop_reason = "tool_use") =>
               /\ ev'.op = "loop"
               /\ turn'.status = "running"
               /\ turn'.rounds = turn.rounds + 1
          /\ (pc = "got_response" /\ response.stop_reason # "tool_use") =>
               /\ ev'.op = "return"
               /\ turn'.status = "returned"
               /\ turn'.final = <<response>>
               /\ turn'.model_calls = turn.rounds + 1
          /\ ev'.op = "return" => response.stop_reason # "tool_use"]_vars
    /\ (turn.status = "running") ~> (turn.status = "returned")

\* C22 witness: a turn has returned after MaxRounds rounds of the loop, as
\* many as the model asked for.
C22_Witness ==
    /\ turn.status = "returned"
    /\ turn.rounds = MaxRounds
    /\ turn.model_calls = MaxRounds + 1
    /\ turn.dispatches >= 2

\* The control state of the turn, in the terms of the state machine of chat:
\* chat is at messages.create (AwaitingModel), holds a tool_use response it
\* has not yet entered the loop for (ModelRespondedWithTools), is in the loop
\* over the blocks (ExecutingTools), or holds or has returned a response with
\* another stop reason (FinalResponse). NoTurn: no turn has run since the
\* start or the last reset, or the last one has raised.
Control ==
    IF pc = "call_model" THEN "AwaitingModel"
    ELSE IF pc = "got_response"
    THEN (IF response.stop_reason = "tool_use" THEN "ModelRespondedWithTools"
          ELSE "FinalResponse")
    ELSE IF pc = "for_blocks" THEN "ExecutingTools"
    ELSE IF turn.status = "returned" THEN "FinalResponse"
    ELSE "NoTurn"

ControlTransitions ==
    {<<"AwaitingModel", "ModelRespondedWithTools">>,
     <<"ModelRespondedWithTools", "ExecutingTools">>,
     <<"ExecutingTools", "AwaitingModel">>,
     <<"AwaitingModel", "FinalResponse">>}

\* C23: within a turn the control state changes only along AwaitingModel ->
\* ModelRespondedWithTools -> ExecutingTools -> AwaitingModel and
\* AwaitingModel -> FinalResponse (a turn is left otherwise only by the
\* failure of a model invocation, from AwaitingModel). A tool is dispatched
\* only in ExecutingTools, which is entered only after a tool_use response;
\* ExecutingTools is left only for a model invocation, with the results
\* appended; the model is invoked only in AwaitingModel; and from
\* FinalResponse the only steps are the return, the start of another turn and
\* the reset.
C23_ControlStateTransitions ==
    [][/\ (ev'.op \notin {"chat", "reset"} /\ turn'.status # "raised") =>
             \/ Control' = Control
             \/ <<Control, Control'>> \in ControlTransitions
       /\ (turn.status # "raised" /\ turn'.status = "raised") =>
             /\ Control = "AwaitingModel"
             /\ ev'.op = "model_failed"
       /\ ev'.op = "dispatch" =>
             /\ Control = "ExecutingTools"
             /\ response.stop_reason = "tool_use"
             /\ turn.rounds = turn.model_calls
       /\ (Control = "ExecutingTools" /\ Control' # "ExecutingTools") =>
             /\ Control' = "AwaitingModel"
             /\ ev'.op = "results"
       /\ ev'.op \in {"model", "model_failed"} => Control = "AwaitingModel"
       /\ Control = "FinalResponse" => ev'.op \in {"return", "chat", "reset"}]_vars

\* C23 witness: a turn has gone once round the loop, with a dispatch, and has
\* come to its final response.
C23_Witness ==
    /\ Control = "FinalResponse"
    /\ pc = "got_response"
    /\ turn.rounds = 1
    /\ turn.dispatches >= 1
    /\ turn.model_calls = 2

\* history is prefix with one more message at its end.
ExtendsByOne(history, prefix) ==
    /\ Len(history) = Len(prefix) + 1
    /\ \A i \in 1..Len(prefix) : history[i] = prefix[i]

\* C24: every step other than a reset leaves the history as it is or appends
\* one message at its end: the messages already there keep their place and
\* their content.
C24_HistoryIsAppendOnly ==
    [][ev'.op # "reset" =>
          \/ conversation_history' = conversation_history
          \/ ExtendsByOne(conversation_history', conversation_history)]_vars

\* C24 witness: a turn with one round of the loop has returned, and the
\* history holds its four messages: the user's, the assistant's tool call,
\* the results, the final answer.
C24_Witness ==
    /\ ev.op = "return"
    /\ turn.rounds = 1
    /\ turn.start = <<>>
    /\ Len(conversation_history) = 4
    /\ conversation_history[1].role = "user"
    /\ conversation_history[2].role = "assistant"
    /\ conversation_history[3].role = "user"
    /\ conversation_history[4].role = "assistant"

\* The steps of chat, call_tool included, by the operation they record.
ChatOps == {"chat", "model", "model_failed", "loop", "skip_block", "dispatch",
            "results", "return"}

\* C25: no step of chat, the dispatch of a tool by call_tool included, changes
\* the basket, the discount code, the discount amount, the user location, the
\* preferences or the current order id of the session.
C25_ChatLeavesContextAlone ==
    [][ev'.op \in ChatOps =>
          /\ basket' = basket
          /\ discount_code' = discount_code
          /\ discount_amount' = discount_amount
          /\ user_location' = user_location
          /\ user_preferences' = user_preferences
          /\ current_order_id' = current_order_id]_vars

\* C25 witness: a turn has returned in which a server was invoked for a tool,
\* on a session whose basket holds an item and whose location is known.
C25_Witness ==
    /\ ev.op = "return"
    /\ turn.dispatches >= 1
    /\ last_call.invoked # <<>>
    /\ last_call.invoked[1].outcome.kind = "result"
    /\ basket # <<>>
    /\ user_location # None

\* The descriptor list as the registrations built it: one descriptor for each
\* registration, in the order of registration, under its qualified name.
InRegistrationOrder(list) ==
    /\ Len(list) = Len(registered)
    /\ \A i \in 1..Len(list) :
          list[i].name = QualifiedName(registered[i][1], registered[i][2])

\* C26: once startup is over no step changes the descriptor list, the routing
\* table or the connections, whether it belongs to a turn of chat, to a
\* call_tool or to a reset; and every model invocation is handed self.tools,
\* the descriptors of all the registrations in registration order.
C26_RegistryFixedAfterStartup ==
    [][/\ phase = "ready" =>
             /\ tools' = tools
             /\ tool_to_server' = tool_to_server
             /\ sessions' = sessions
       /\ ev'.op \in {"model", "model_failed"} =>
             /\ ev'.tools = tools
             /\ InRegistrationOrder(ev'.tools)]_vars

\* C26 witness: on a host with a registered tool, the model is invoked in a
\* turn that follows a reset, which followed a turn in which the tool was
\* called.
C26_Witness ==
    /\ ev.op = "model"
    /\ ev.tools # <<>>
    /\ turn.start = <<>>
    /\ last_call.called
    /\ last_call.invoked # <<>>
    /\ turn.dispatches = 0
    /\ Cardinality(DOMAIN sessions) = 2

\* The text of parts joined by newlines, built from the last part backwards:
\* the text of a part that has one, the string form of a part that has none.
RECURSIVE JoinedParts(_)
JoinedParts(parts) ==
    LET n    == Len(parts)
        text == IF parts[n].has_text THEN parts[n].text ELSE parts[n].repr
    IN IF n = 0 THEN <<>>
       ELSE IF n = 1 THEN text
       ELSE JoinedParts(SubSeq(parts, 1, n - 1)) \o <<"\n">> \o text

\* C27: when call_tool has invoked a server and the invocation has returned a
\* result, call_tool returns the parts of the result's content joined by
\* newlines in part order (the empty string for an empty content), or the
\* string form of the result when it has no content.
C27_ResultIsNormalized ==
    (/\ last_call.called
     /\ last_call.invoked # <<>>
     /\ last_call.invoked[1].outcome.kind = "result") =>
        LET result == last_call.invoked[1].outcome
        IN /\ ~last_call.raised
           /\ result.has_content => last_call.value = JoinedParts(result.content)
           /\ (result.has_content /\ result.content = <<>>) => last_call.value = <<>>
           /\ ~result.has_content => last_call.value = result.repr

\* C27 witness: a server has returned a content of a text part followed by a
\* part without text, and call_tool has returned the text, a newline and the
\* string form of the second part.
C27_Witness ==
    /\ last_call.called
    /\ last_call.invoked # <<>>
    /\ last_call.invoked[1].outcome.kind = "result"
    /\ last_call.invoked[1].outcome.has_content
    /\ Len(last_call.invoked[1].outcome.content) = 2
    /\ last_call.invoked[1].outcome.content[1].has_text
    /\ ~last_call.invoked[1].outcome.content[2].has_text
    /\ last_call.value = <<"r", "\n", "I">>

\* C28: no descriptor of the registry has an empty description. The
\* descriptor registered for a listed tool carries the description the server
\* supplied when that is a non-empty text, and "Tool: " followed by the local
\* name when the server supplied none or an empty one; and a registration
\* leaves the descriptions registered before as they were.
C28_DescriptionNeverEmpty ==
    [][/\ \A i \in 1..Len(tools') : tools'[i].description # <<>>
       /\ ev'.op = "connect" =>
             /\ Len(tools') = Len(tools) + Len(ev'.listing)
             /\ \A i \in 1..Len(tools) : tools'[i].description = tools[i].description
             /\ \A k \in 1..Len(ev'.listing) :
                   LET raw      == ev'.listing[k]
                       supplied == raw.description
                   IN tools'[Len(tools) + k].description =
                         IF Len(supplied) = 1 /\ Len(supplied[1]) > 0
                         THEN supplied[1]
                         ELSE <<"T", "o", "o", "l", ":", " ">> \o raw.name]_vars

\* C28 witness: startup is over, and the descriptors registered for three
\* tools, one with a text, one with an empty description and one with none,
\* carry the text and twice the default.
C28_Witness ==
    /\ phase = "ready"
    /\ \E i, j, k \in 1..Len(tools) :
          /\ tools[i].description = <<"d">>
          /\ tools[j].description = <<"T", "o", "o", "l", ":", " ", "c">>
          /\ tools[k].description = <<"T", "o", "o", "l", ":", " ", "e">>
    /\ ev.op = "ready"
    /\ Len(tools) = 4

\* The qualified name the k-th registration produced.
Registered(k) == registered[k][1] \o Sep \o registered[k][2]

\* C29: when two registrations have produced the same qualified name, by two
\* servers or by one server that listed a local name twice, the routing table
\* maps the name to the server of the later one, or of a still later one with
\* that name, and the descriptor list holds an entry of that name at the
\* place of each of the two registrations.
C29_CollisionRoutesToLastKeepsBoth ==
    \A i, j \in 1..Len(registered) :
        (i < j /\ Registered(i) = Registered(j)) =>
            LET q    == Registered(i)
                last == CHOOSE k \in j..Len(registered) :
                            /\ Registered(k) = q
                            /\ \A m \in j..Len(registered) : Registered(m) = q => m <= k
            IN /\ q \in DOMAIN tool_to_server
               /\ tool_to_server[q] = registered[last][1]
               /\ Len(tools) = Len(registered)
               /\ tools[i].name = q
               /\ tools[j].name = q
               /\ Cardinality({k \in 1..Len(tools) : tools[k].name = q})
                     = Cardinality({k \in 1..Len(registered) : Registered(k) = q})

\* C29 witness: server a has listed b__c, then server a__b has listed c: the
\* list holds two descriptors named a__b__c, with the descriptions of the two
\* tools, and the name is routed to a__b.
C29_Witness ==
    /\ Len(tools) = 2
    /\ registered = <<<<<<"a">>, <<"b", "_", "_", "c">>>>,
                      <<<<"a", "_", "_", "b">>, <<"c">>>>>>
    /\ tools[1].name = tools[2].name
    /\ tools[1].description # tools[2].description
    /\ tool_to_server[tools[1].name] = <<"a", "_", "_", "b">>

\* C30: two hosts reach no object in common, and a step of one host (a
\* connection, a turn, a basket update, a reset) leaves what the other host
\* holds as it was: its history, its contextual fields, its descriptor
\* list, its routing table and its connections.
C30_SessionsShareNothing ==
    [][/\ Objects(heap', hosts'[1]) \cap Objects(heap', hosts'[2]) = {}
       /\ \A i, j \in 1..2 :
             (ev'.host = i /\ j # i) =>
                View(heap', hosts'[j]) = View(heap, hosts[j])]_vars

\* C30 witness: the first host has been reset after turns and basket updates
\* on both hosts, and the second host, with tools registered, still has its
\* history and its basket.
C30_Witness ==
    /\ ev.op = "host_reset"
    /\ ev.host = 1
    /\ View(heap, hosts[1]).conversation_history = <<>>
    /\ View(heap, hosts[1]).tools # <<>>
    /\ Len(View(heap, hosts[2]).conversation_history) = 4
    /\ View(heap, hosts[2]).basket # <<>>
    /\ View(heap, hosts[2]).tools # <<>>
    /\ hosts[1].state # hosts[2].state

\* C31: when a turn with one or more rounds of the loop has returned, its
\* answer is the concatenation, in block order, of the texts of the final
\* response alone; the final response is the last message of the history, as
\* an assistant message with all its blocks; and the blocks of the first
\* response, its texts included, are still in the history, in the assistant
\* message that follows the user's.
C31_AnswerIsTextOfFinalResponse ==
    (turn.status = "returned" /\ turn.rounds >= 1) =>
        LET final == turn.final[1].content
            n     == Len(conversation_history)
            s     == Len(turn.start)
        IN /\ turn.answer = TextUpTo(final, Len(final))
           /\ conversation_history[n] =
                 [role |-> "assistant", content |-> [list |-> final]]
           /\ conversation_history[s + 2] =
                 [role |-> "assistant", content |-> [list |-> turn.first[1].content]]
           /\ s + 2 < n

\* C31 witness: the first response of a returned turn carried the text h next
\* to a tool call, the final response the texts i and h, and the answer is ih.
C31_Witness ==
    /\ turn.status = "returned"
    /\ turn.rounds = 1
    /\ Len(turn.first[1].content) = 2
    /\ turn.first[1].content[1] = [type |-> "text", text |-> <<"h">>]
    /\ turn.first[1].content[2].type = "tool_use"
    /\ Len(turn.final[1].content) = 2
    /\ turn.answer = <<"i", "h">>

\* A history that is empty, or that begins with a user message, ends with an
\* assistant message and has no two neighbours of the same role.
Alternates(history) ==
    \/ history = <<>>
    \/ /\ history[1].role = "user"
       /\ history[Len(history)].role = "assistant"
       /\ \A i \in 1..Len(history) : history[i].role \in {"user", "assistant"}
       /\ \A i \in 1..(Len(history) - 1) : history[i].role # history[i + 1].role

\* C32: the history of a new session alternates; a turn that began with an
\* alternating history and has returned leaves an alternating history; and a
\* reset leaves the empty one. So the history alternates after every sequence
\* of returned turns and resets.
C32_HistoryAlternates ==
    /\ (ev.op = "ready") => Alternates(conversation_history)
    /\ (turn.status = "returned" /\ Alternates(turn.start)) =>
          Alternates(conversation_history)
    /\ (ev.op = "reset") => conversation_history = <<>>

\* C32 witness: a turn with one round of the loop has returned and the
\* history holds its four messages: user, assistant, user, assistant.
C32_Witness ==
    /\ turn.status = "returned"
    /\ ev.op = "return"
    /\ turn.rounds = 1
    /\ turn.start = <<>>
    /\ Len(conversation_history) = 4
    /\ conversation_history[3].role = "user"

\* C33: a turn that has returned after k responses with stop reason tool_use
\* has invoked the model k + 1 times, and the history is the one the turn
\* began with followed by 2k + 2 messages: the user text, k pairs of an
\* assistant message and a user message holding a list of results, and the
\* assistant message of the final response.
C33_CallsAndMessagesOfATurn ==
    (turn.status = "returned") =>
        LET k == turn.rounds
            s == Len(turn.start)
            h == conversation_history
        IN /\ turn.model_calls = k + 1
           /\ Len(h) = s + 2 * k + 2
           /\ SubSeq(h, 1, s) = turn.start
           /\ h[s + 1] = UserMessage(turn.user)
           /\ \A j \in 1..k :
                 /\ h[s + 2 * j].role = "assistant"
                 /\ DOMAIN h[s + 2 * j].content = {"list"}
                 /\ h[s + 2 * j + 1].role = "user"
                 /\ DOMAIN h[s + 2 * j + 1].content = {"list"}
                 /\ \A i \in 1..Len(h[s + 2 * j + 1].content.list) :
                       h[s + 2 * j + 1].content.list[i].type = "tool_result"
           /\ h[s + 2 * k + 2] = AssistantMessage(turn.final[1].content)

\* C33 witness: a turn has returned after MaxRounds responses with stop reason
\* tool_use, the last of them without a tool call, and the history has grown
\* by 2 * MaxRounds + 2 messages.
C33_Witness ==
    /\ turn.status = "returned"
    /\ turn.rounds = MaxRounds
    /\ Len(conversation_history) = Len(turn.start) + 2 * MaxRounds + 2
    /\ conversation_history[Len(conversation_history) - 1].content.list = <<>>

\* C34: at every point of startup and after it, whichever connections
\* succeeded and failed, every server name the routing table holds as a value
\* is a key of self.sessions; and a call of call_tool for a name the routing
\* table routes to a non-empty server name reached self.sessions[server_name]
\* without a KeyError and invoked that session.
C34_RoutesLeadToSessions ==
    /\ \A k \in DOMAIN tool_to_server : tool_to_server[k] \in DOMAIN sessions
    /\ (/\ last_call.called
        /\ last_call.tool_name \in DOMAIN tool_to_server
        /\ tool_to_server[last_call.tool_name] # <<>>) =>
          /\ ~last_call.raised
          /\ Len(last_call.invoked) = 1
          /\ last_call.invoked[1].session =
                sessions[tool_to_server[last_call.tool_name]]

\* C34 witness: after one server was connected and registered a tool, the
\* connection of the next one has failed at the handshake: the routing table
\* has a route and self.sessions the one key.
C34_Witness ==
    /\ ev.op = "connect_failed"
    /\ ev.stage = "initialize"
    /\ tool_to_server # <<>>
    /\ Cardinality(DOMAIN sessions) = 1

\* The configuration says "enabled": false.
Disabled(config) == "enabled" \in DOMAIN config /\ config.enabled = FALSE

\* C35: no context of a server is entered twice, so every configured name has
\* one transport and one session at most; a server configured with enabled
\* false has no key in self.sessions, no context entered, no registration and
\* no route, and the step of startup that comes to it is a skip that leaves
\* the tables and the exit stack alone; the step that comes to a server
\* without the field connects it, or fails connecting it.
C35_DisabledSkippedDefaultEnabled ==
    /\ [](/\ \A i, j \in 1..Len(opened) : opened[i] = opened[j] => i = j
          /\ \A k \in 1..Len(server_configs) :
                Disabled(server_configs[k]) =>
                   LET name == server_configs[k].name
                   IN /\ name \notin DOMAIN sessions
                      /\ \A i \in 1..Len(opened) : opened[i].server # name
                      /\ \A i \in 1..Len(registered) : registered[i][1] # name
                      /\ \A q \in DOMAIN tool_to_server : tool_to_server[q] # name)
    /\ [][(phase = "startup" /\ cfg_idx <= Len(server_configs)) =>
             LET config == server_configs[cfg_idx]
             IN /\ Disabled(config) =>
                      /\ ev'.op = "skip"
                      /\ UNCHANGED <<sessions, tools, tool_to_server, registered,
                                     opened, exit_stack>>
                /\ "enabled" \notin DOMAIN config =>
                      /\ ev'.op \in {"connect", "connect_failed"}
                      /\ ev'.name = config.name]_vars

\* C35 witness: startup is over for a configuration with a server a
\* that has no enabled field and a server a__b with enabled false: a is
\* connected and has registered a tool, a__b is not.
C35_Witness ==
    /\ phase = "ready"
    /\ server_configs = <<[name |-> <<"a", "_", "_", "b">>, enabled |-> FALSE],
                          [name |-> <<"a">>]>>
    /\ DOMAIN sessions = {<<"a">>}
    /\ tool_to_server # <<>>

\* No two items of the list have the same product_id.
UniqueProducts(items) ==
    \A i, j \in 1..Len(items) : items[i].product_id = items[j].product_id => i = j

\* items with the item at position i taken out.
Without(items, i) == SubSeq(items, 1, i - 1) \o SubSeq(items, i + 1, Len(items))

\* C36: in the session's basket and in the manager's no two items have the
\* same product_id; add_item for a product the manager holds leaves the
\* number of items and adds the quantity to that item alone; add_to_basket
\* either raises the quantity of one item or appends an item of a product the
\* basket did not hold.
C36_OneItemPerProduct ==
    /\ [](UniqueProducts(basket) /\ UniqueProducts(manager.items))
    /\ [][/\ (ev'.op = "add_item"
              /\ FirstItem(manager.items, ev'.product_id) # 0) =>
                LET i == FirstItem(manager.items, ev'.product_id)
                IN manager'.items =
                      [manager.items EXCEPT ![i].quantity = @ + ev'.quantity]
          /\ (ev'.op = "add_to_basket") =>
                \/ /\ Len(basket') = Len(basket)
                   /\ \E i \in 1..Len(basket) :
                         /\ basket'[i].quantity > basket[i].quantity
                         /\ basket' = [basket EXCEPT ![i].quantity =
                                                        basket'[i].quantity]
                \/ /\ Len(basket') = Len(basket) + 1
                   /\ SubSeq(basket', 1, Len(basket)) = basket
                   /\ FirstItem(basket, basket'[Len(basket')].product_id) = 0]_vars

\* C36 witness: add_item for a product the manager already held, next to an
\* item of another product: the call reports "updated" and the manager holds
\* two items, the first with the quantity 2.
C36_Witness ==
    /\ ev.op = "add_item"
    /\ ev.result.action = "updated"
    /\ Len(manager.items) = 2
    /\ manager.items[1].product_id = ev.product_id
    /\ manager.items[1].quantity = 2

\* C37: the total after discount of the session's basket and of the manager's
\* is never negative: it is the subtotal minus the discount amount when that
\* is positive and 0 otherwise, and so is the basket_total a call of the
\* manager reports; after clear_basket, after reset and after the manager's
\* clear the items are empty, the discount code is None and the amount is 0.
C37_TotalFlooredDiscountCleared ==
    /\ basket_total_with_discount >= 0
    /\ basket_total_with_discount >= basket_total - discount_amount
    /\ basket_total_with_discount \in {0, basket_total - discount_amount}
    /\ ManagerTotal(manager) >= 0
    /\ ManagerTotal(manager) >= ManagerSubtotal(manager) - manager.discount_amount
    /\ ManagerTotal(manager) \in
          {0, ManagerSubtotal(manager) - manager.discount_amount}
    /\ (ev.op \in {"add_item", "remove_item", "update_quantity"}
        /\ ev.result.success) => ev.result.basket_total = ManagerTotal(manager)
    /\ (ev.op \in {"clear_basket", "reset"}) =>
          basket = <<>> /\ discount_code = None /\ discount_amount = 0
    /\ (ev.op = "clear") =>
          /\ manager.items = <<>>
          /\ manager.discount_code = None
          /\ manager.discount_amount = 0

\* C37 witness: an item was added to a manager whose discount exceeds the
\* subtotal: the total the call reports is 0.
C37_Witness ==
    /\ ev.op = "add_item"
    /\ manager.items # <<>>
    /\ manager.discount_amount > ManagerSubtotal(manager)
    /\ ev.result.basket_total = 0

\* C38: update_quantity with a quantity of 0 or less leaves the manager and
\* returns the dict that remove_item for the product leaves and returns: the
\* product's item is gone and the call succeeds, or the manager holds none and
\* the call fails; update_quantity for a product the manager does not hold
\* fails and leaves the manager as it was; and, add_item being called with
\* quantities of 1 or more, every item of the manager has a quantity of 1 or
\* more.
C38_UpdateToZeroRemoves ==
    /\ [][(ev'.op = "update_quantity") =>
             LET i == FirstItem(manager.items, ev'.product_id)
             IN /\ (ev'.quantity <= 0) =>
                      /\ manager' = RemoveItem(manager, ev'.product_id).manager
                      /\ ev'.result = RemoveItem(manager, ev'.product_id).result
                      /\ (i # 0) =>
                            /\ manager'.items = Without(manager.items, i)
                            /\ ev'.result.success
                            /\ ev'.result.removed = ToDict(manager.items[i])
                /\ (i = 0) =>
                      /\ manager' = manager
                      /\ ev'.result = NotFoundResult(ev'.product_id)
                /\ (i # 0 /\ ev'.quantity > 0) =>
                      manager'.items[i].quantity = ev'.quantity]_vars
    /\ [](\A i \in 1..Len(manager.items) : manager.items[i].quantity >= 1)

\* C38 witness: update_quantity with quantity 0 has removed one of two items.
C38_Witness ==
    /\ ev.op = "update_quantity"
    /\ ev.quantity = 0
    /\ ev.result.success
    /\ Len(manager.items) = 1
    /\ manager.items[1].product_id # ev.product_id
====
